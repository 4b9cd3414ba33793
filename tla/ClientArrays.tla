---------------------------- MODULE ClientArrays ----------------------------
(***************************************************************************)
(* OpenGL client arrays.  A program gives the addresses of its vertex data *)
(* once and draws from them later; the library cannot read guest memory,   *)
(* so the guest's DLL sends the data of the enabled arrays with every draw *)
(* (PushVertexArray of wrapgl32.c) and the device copies them into its     *)
(* vertex cache (PushVertexArray of mesapt_mm.c, mglvarry.c), whose        *)
(* addresses the library was given in place of the program's.  Which       *)
(* arrays a draw carries is decided on both sides, each from its own copy  *)
(* of the array state; neither asks the library.                           *)
(*                                                                         *)
(* Arrays that the code treats alike are one here: vertex stands for them  *)
(* all, tex0 and tex1 are units of TexCoord.  A block of client memory     *)
(* holds one value; a draw uses a part of each array, as long and as far   *)
(* from the array's address in all of them (the strides are equal).        *)
(***************************************************************************)
EXTENDS Integers, Sequences, FiniteSets

CONSTANTS
  Mem,        \* addresses of the program's blocks
  Values,     \* what a block may hold
  Size,       \* szVertCache
  PageSize,   \* PAGE_SIZE
  Buffers,    \* names of buffer objects
  Vaos,       \* names of vertex array objects
  Kits,       \* what a program uses: see KitType
  Orderly,    \* TRUE: programs keep the rules MayName, MayDraw, MayPoint and MayLeave
  Near,       \* TRUE: and the rule MayReach
  MaxQueue,   \* bound on the bounds of the kits
  MaxContexts \* bound on the contexts a program makes

Half == Size \div 2

\* Blocks are not in the first page, and do not overlap.
ASSUME ConstantsAssumption ==
  /\ Mem \subseteq Nat /\ IsFiniteSet(Mem) /\ PageSize \in Nat \ {0} /\ \A m \in Mem : m >= PageSize
  /\ \A m, n \in Mem : m < n => n - m >= Half
  /\ Size \in Nat /\ Size > 1
  /\ Buffers \subseteq Nat \ {0} /\ Vaos \subseteq Nat \ {0}
  /\ Orderly \in BOOLEAN /\ Near \in BOOLEAN
  /\ MaxQueue \in Nat \ {0} /\ MaxContexts \in Nat \ {0}

Units == {"tex0", "tex1"}        \* MAX_TEXUNIT cut to two
Arrays == Units \union {"vertex"}

\* What a draw uses of each array: some bytes, from the first vertex on.
PartType == [first : Nat, size : Nat \ {0}]
Whole == [first |-> 0, size |-> Half]

\* A program names arrays by the active unit (conventional) or by attribute
\* index; one of style objects does the latter with vertex array objects, and
\* one of style caps gives GL_VERTEX_ATTRIB_ARRAY0_NV + i to glEnable.
KitType ==
  [style : {"conventional", "attribs", "objects", "caps"},
   names : SUBSET {"vertex", "texcoord", "tex0"},  \* the arrays as it names them
   units : SUBSET Units,        \* the units it selects
   interleaves : BOOLEAN,       \* it calls glInterleavedArrays
   blocks : SUBSET Mem,         \* its memory
   parts : SUBSET PartType,     \* what its draws use
   queue : 1 .. MaxQueue]       \* bound on the calls in its queue

\* An attribute index is not relative to the active unit.
ASSUME KitsAssumption ==
  \A k \in Kits : k \in KitType /\ ("texcoord" \in k.names => k.style = "conventional")

(* Addresses, in the guest and as the library sees them.                   *)
Null == <<"null", 0, 0>>
Offset == <<"offset", 0, 0>>               \* a small number, not zero
Client(m) == <<"client", m, 0>>
Cached(e, off) == <<"cache", e, off>>      \* in an entry of the vertex cache
(* Where the library's arrays come from, besides.                          *)
Source(b) == <<"buffer", b, 0>>
Wild == <<"wild", 0, 0>>                   \* nothing that can be read

VARIABLES
  kit,       \* what this program uses
  program,   \* the client state of OpenGL, as the program left it
  mem,       \* what its blocks hold
  lost,      \* arrays it must specify again before it draws (see MayDraw)
  woven,     \* arrays specified by glInterleavedArrays
  guest,     \* vtxArry and Interleaved of wrapgl32.c
  fifo,      \* calls that are queued, with the data they carry
  device,    \* the same state in MesaPTState
  cache,     \* vertexArry of mglvarry.c
  library,   \* the client state in the host's OpenGL
  contexts,  \* contexts made so far
  context,   \* there is one
  drawn      \* the draw the device just executed

programVars == <<kit, program, mem, lost, woven, contexts, context>>
deviceVars == <<device, cache, library>>
vars == <<programVars, guest, fifo, deviceVars, drawn>>

-----------------------------------------------------------------------------
(* The client state of OpenGL: enables, sources and the element binding    *)
(* belong to the vertex array object, the array binding does not.          *)

GLInit ==
  [vao |-> 0, arrayBuf |-> 0, unit |-> "tex0",
   on  |-> [v \in Vaos \union {0} |-> {}],
   src |-> [v \in Vaos \union {0} |-> [a \in Arrays |-> Null]],
   elem |-> [v \in Vaos \union {0} |-> 0]]

\* The array that an entry point without an index means.
Meant(s, what) == IF what = "texcoord" THEN s.unit ELSE what

GLSource(gl, p) ==
  IF gl.arrayBuf = 0 THEN p
  ELSE IF p = Offset THEN Source(gl.arrayBuf) ELSE Wild

GLDeleteBuffer(gl, b) ==
  [gl EXCEPT !.arrayBuf = IF @ = b THEN 0 ELSE @,
             !.elem[gl.vao] = IF @ = b THEN 0 ELSE @,
             !.src[gl.vao] = [a \in Arrays |-> IF @[a] = Source(b) THEN Null ELSE @[a]]]

GLDeleteVao(gl, v) ==
  [gl EXCEPT !.vao = IF @ = v THEN 0 ELSE @,
             !.on[v] = {}, !.src[v] = [a \in Arrays |-> Null], !.elem[v] = 0]

\* What a call does to it; c.ptr is the address the library was given.
GLCall(gl, c) ==
  LET a == Meant(gl, c.what)  v == gl.vao IN
  CASE c.op = "ActiveTexture" -> [gl EXCEPT !.unit = c.what]
    [] c.op \in {"Enable", "EnableAttrib", "EnableCap"}    -> [gl EXCEPT !.on[v] = @ \union {a}]
    [] c.op \in {"Disable", "DisableAttrib", "DisableCap"} -> [gl EXCEPT !.on[v] = @ \ {a}]
    [] c.op \in {"Pointer", "AttribPointer"} -> [gl EXCEPT !.src[v][a] = GLSource(gl, c.ptr)]
    [] c.op = "Interleaved" ->
         [gl EXCEPT !.on[v] = @ \union {"vertex", gl.unit},
                    !.src[v]["vertex"] = GLSource(gl, c.ptr),
                    !.src[v][gl.unit] = GLSource(gl, c.ptr)]
    [] c.op = "BindArray" -> [gl EXCEPT !.arrayBuf = c.name]
    [] c.op = "BindElement" -> [gl EXCEPT !.elem[v] = c.name]
    [] c.op = "DeleteBuffer" -> GLDeleteBuffer(gl, c.name)
    [] c.op = "BindVao" -> [gl EXCEPT !.vao = c.name]
    [] c.op = "DeleteVao" -> GLDeleteVao(gl, c.name)
    [] OTHER -> gl

-----------------------------------------------------------------------------
(* The copy of the array state that guest and device each keep.  They are  *)
(* updated by two pieces of code, line for line the same but for glEnable  *)
(* and glDisable; Tracked is the device's, GuestTracks the guest's.        *)

\* InitClientStates
NoClientState ==
  [on |-> {}, ptr |-> [a \in Arrays |-> Null], unit |-> "tex0",
   arrayBuf |-> 0, elemBuf |-> 0, vao |-> 0,
   interleaved |-> FALSE, interPtr |-> Null]

\* vtxarry_ptr_reset
PtrReset(s) == [s EXCEPT !.ptr = [a \in Arrays |-> Null]]

\* A vertex array object stands for both bindings.
InVao(s) ==
  IF s.vao = 0 THEN s ELSE [s EXCEPT !.arrayBuf = s.vao, !.elemBuf = s.vao]

BindArrayBuffer(s, b) ==
  LET bound == [s EXCEPT !.arrayBuf = b] IN
  InVao(IF s.vao = 0 /\ b = 0 THEN PtrReset(bound) ELSE bound)

DeleteBuffer(s, b) ==
  LET rest == [s EXCEPT !.arrayBuf = IF @ = b THEN 0 ELSE @,
                        !.elemBuf = IF @ = b THEN 0 ELSE @]
  IN InVao(IF s.vao = 0 /\ s.arrayBuf = b THEN PtrReset(rest) ELSE rest)

BindVertexArray(s, v) == [s EXCEPT !.vao = v, !.arrayBuf = v, !.elemBuf = v]

\* vtxarry_state; an attribute of a texture unit also selects the unit
\* (vattr2arry_state).
ArrayState(s, c) ==
  [s EXCEPT !.on = IF c.op \in {"Enable", "EnableAttrib", "EnableCap"}
                   THEN @ \union {Meant(s, c.what)} ELSE @ \ {Meant(s, c.what)},
            !.unit = IF c.op \notin {"Enable", "Disable"} /\ c.what \in Units
                     THEN c.what ELSE @]

\* What a call does to the copy; c.ptr is the address this side stores.
Tracked(s, c) ==
  CASE c.op = "ActiveTexture" -> [s EXCEPT !.unit = c.what]
    [] c.op \in {"Enable", "EnableAttrib", "EnableCap", "Disable", "DisableAttrib", "DisableCap"} ->
         ArrayState(s, c)
    [] c.op \in {"Pointer", "AttribPointer"} -> [s EXCEPT !.ptr[Meant(s, c.what)] = c.ptr]
    [] c.op = "Interleaved" -> [s EXCEPT !.interleaved = TRUE, !.interPtr = c.ptr]
    [] c.op = "BindArray" -> BindArrayBuffer(s, c.name)
    [] c.op = "BindElement" -> InVao([s EXCEPT !.elemBuf = c.name])
    [] c.op = "DeleteBuffer" -> DeleteBuffer(s, c.name)
    [] c.op = "BindVao" -> BindVertexArray(s, c.name)
    [] c.op = "DeleteVao" -> BindVertexArray(s, IF s.vao = c.name THEN 0 ELSE s.vao)
    [] OTHER -> s

Draws == {"DrawArrays", "DrawElements", "ArrayElement", "LockArrays"}

\* Some arrays, in the order both sides go through them.
InOrder(arrays) ==
  LET this(a) == IF a \in arrays THEN <<a>> ELSE <<>> IN
  this("tex0") \o this("tex1") \o this("vertex")

PushesInterleaved(s) == s.interleaved /\ s.interPtr # Null

\* Mutation: of the units, only the active one.
PushedOfUnit(s) ==
  IF PushesInterleaved(s) THEN <<"interleaved">>
  ELSE InOrder({a \in {s.unit, "vertex"} \intersect s.on : s.ptr[a] # Null})

Pushed(s) ==
  IF PushesInterleaved(s) THEN <<"interleaved">>
  ELSE InOrder({a \in s.on : s.ptr[a] # Null})

SendsIndices(s, op) == op = "DrawElements" /\ s.elemBuf = 0

PushesArrays(s, op) ==
  CASE op = "DrawArrays" -> s.arrayBuf = 0
    [] op = "DrawElements" -> s.elemBuf = 0 /\ s.arrayBuf = 0
    [] op \in {"ArrayElement", "LockArrays"} -> TRUE

Carried(s, op) ==
  (IF SendsIndices(s, op) THEN <<"indices">> ELSE <<>>) \o
  (IF PushesArrays(s, op) THEN Pushed(s) ELSE <<>>)

\* PushVertexArray ends with the interleaved arrays switched off.
AfterDraw(s, op) ==
  IF PushesArrays(s, op) /\ PushesInterleaved(s)
  THEN [s EXCEPT !.interleaved = FALSE] ELSE s

\* Where this side finds an array that a draw carries.
PlaceOf(s, a) == IF a = "interleaved" THEN s.interPtr ELSE s.ptr[a]

-----------------------------------------------------------------------------
(* The vertex cache: entries for ranges of guest addresses.                *)

\* Mutation: an entry is good for every address in its range.
ServesAll(e, handle) == (handle >= e.lo \/ e.lo = PageSize) /\ handle < e.hi

Serves(e, handle) ==
  /\ handle >= e.lo \/ e.lo = PageSize
  /\ handle < e.hi
  /\ e.hi - handle >= Half

\* Mutation: a range that would start below the first page.
NewEntryBelow(handle) ==
  [lo |-> handle - Size, hi |-> handle + Size, data |-> [i \in 0 .. 2 * Size - 1 |-> "blank"]]

NewEntry(handle) ==
  LET lo == IF handle > Size THEN handle - Size ELSE PageSize IN
  [lo |-> lo, hi |-> lo + 2 * Size, data |-> [i \in 0 .. 2 * Size - 1 |-> "blank"]]

\* LookupVertArry: the cache afterwards, and the entry it answers with.
Looked(handle) ==
  IF \E e \in DOMAIN cache : Serves(cache[e], handle) THEN cache
  ELSE Append(cache, NewEntry(handle))

LookupVertex(handle) ==
  LET e == CHOOSE i \in DOMAIN Looked(handle) :
             /\ Serves(Looked(handle)[i], handle)
             /\ \A j \in 1 .. i - 1 : ~Serves(Looked(handle)[j], handle)
  IN Cached(e, handle - Looked(handle)[e].lo)

\* The address the library is given for one of the program's.
Looks(c) ==
  /\ c.ptr[1] = "client"
  /\ c.op = "Interleaved" \/ device.arrayBuf = 0

Given(c) == IF Looks(c) THEN [c EXCEPT !.ptr = LookupVertex(c.ptr[2])] ELSE c

\* Mutation: nothing is cut.
CutNothing(part) == part.size

\* Half a cache is copied at most, to where the part's first vertex belongs.
Cut(part) == IF part.size > Half THEN Half ELSE part.size

\* The bytes of an entry behind an array's address where a part begins.
Bytes(place, part, size) == place[3] + part.first .. place[3] + part.first + size - 1

Inside(place, part) ==
  /\ place[1] = "cache"
  /\ place[2] \in DOMAIN cache
  /\ place[3] + part.first + Cut(part) <= 2 * Size

\* The cache after the data were copied to the places of the carried arrays.
Copied(taken, data, part) ==
  LET at(e, i) == {k \in DOMAIN taken \ {k \in DOMAIN taken : taken[k] = "indices"} :
                     /\ k \in DOMAIN data
                     /\ LET p == PlaceOf(device, taken[k]) IN
                        p[1] = "cache" /\ p[2] = e /\ i \in Bytes(p, part, Cut(part))}
      last(s) == CHOOSE k \in s : \A j \in s : j <= k
  IN [e \in DOMAIN cache |->
       [cache[e] EXCEPT !.data = [i \in DOMAIN @ |->
          IF at(e, i) = {} THEN @[i] ELSE data[last(at(e, i))]]]]

-----------------------------------------------------------------------------
(* What a draw reads: for the program from its memory, for the library     *)
(* from the vertex cache.  Buffer objects count by their names.            *)

ReadArrays(gl) == gl.on[gl.vao]
ReadParts(gl, op) ==
  IF op = "LockArrays" THEN {}
  ELSE ReadArrays(gl) \union (IF op = "DrawElements" THEN {"indices"} ELSE {})

Memory(vs) == <<"memory", vs, 0>>

Wanted(op) ==
  [x \in ReadParts(program, op) |->
    IF x = "indices"
    THEN IF program.elem[program.vao] = 0 THEN Memory({}) ELSE Source(program.elem[program.vao])
    ELSE LET s == program.src[program.vao][x] IN
         IF s[1] = "client" THEN Memory({mem[s[2]]}) ELSE s]

InCache(s, es, part) ==
  IF s[2] \in DOMAIN es /\ s[3] + part.first + part.size <= 2 * Size
  THEN Memory({es[s[2]].data[i] : i \in Bytes(s, part, part.size)}) ELSE Wild

Got(op, es, part) ==
  [x \in ReadParts(library, op) |->
    IF x = "indices"
    THEN LET e == library.elem[library.vao] IN
         IF (e = 0) # (device.elemBuf = 0) THEN Wild
         ELSE IF e = 0 THEN Memory({}) ELSE Source(e)
    ELSE LET s == library.src[library.vao][x] IN
         IF s[1] = "cache" THEN InCache(s, es, part)
         ELSE IF s[1] = "buffer" THEN s ELSE Wild]

NoDraw == [sent |-> <<>>, taken |-> <<>>, fits |-> TRUE, reported |-> FALSE,
           want |-> <<>>, got |-> <<>>]

Init ==
  /\ kit \in Kits
  /\ mem \in [kit.blocks -> Values]
  /\ program = GLInit /\ lost = {} /\ woven = {}
  /\ guest = NoClientState /\ fifo = <<>>
  /\ device = NoClientState /\ cache = <<>> /\ library = GLInit
  /\ contexts = 1 /\ context = TRUE
  /\ drawn = NoDraw

-----------------------------------------------------------------------------
(* The program's calls, as the DLL makes them.                             *)

Call(op, what, name, ptr) ==
  [op |-> op, what |-> what, name |-> name, ptr |-> ptr, part |-> Whole]
DrawCall(op, part) ==
  [op |-> op, what |-> "draw", name |-> 0, ptr |-> Null, part |-> part]

\* Mutation: the DLL forgets that a deleted buffer is no longer bound.
KeepsDeleted(c) == IF c.op = "DeleteBuffer" THEN guest ELSE Tracked(guest, c)

\* The copy that the DLL keeps: addresses as the program gave them.  Its glEnable
\* and glDisable hand an attribute's number to vtxarry_state as it is, where it
\* means no array.
GuestTracks(c) == IF c.op \in {"EnableCap", "DisableCap"} THEN guest ELSE Tracked(guest, c)

\* An asynchronous stub: the call is queued, and the DLL's copy follows it.
Queued(c, names, data, want) ==
  /\ context
  /\ Len(fifo) < kit.queue
  /\ fifo' = Append(fifo, [call |-> c, names |-> names, data |-> data, want |-> want])
  /\ program' = GLCall(program, c)
  /\ drawn' = NoDraw
  /\ UNCHANGED <<kit, mem, contexts, context, deviceVars>>

StateCall(c) ==
  /\ Queued(c, <<>>, <<>>, <<>>)
  /\ guest' = GuestTracks(c)

\* glClientActiveTexture
ClientActiveTexture(u) ==
  /\ StateCall(Call("ActiveTexture", u, 0, Null))
  /\ UNCHANGED <<lost, woven>>

\* A program with vertex array objects uses no array outside of them.
MayName == kit.style = "objects" => program.vao # 0

\* glEnableClientState and glDisableClientState (glEnable and glDisable do the same
\* for a conventional array), glEnableVertexAttribArray and
\* glDisableVertexAttribArray, or glEnable and glDisable of an attribute.
SwitchArray(op, what) ==
  LET on == op = "Enable" IN
  /\ Orderly => MayName
  /\ StateCall(Call(CASE kit.style = "conventional" -> op
                      [] kit.style = "caps" -> IF on THEN "EnableCap" ELSE "DisableCap"
                      [] OTHER -> IF on THEN "EnableAttrib" ELSE "DisableAttrib", what, 0, Null))
  /\ UNCHANGED <<lost, woven>>

\* A program gives an offset when a buffer is bound, and then only.
MayPoint(p) == MayName /\ ((p = Offset) <=> (program.arrayBuf # 0))

\* The pointer calls of all arrays: glTexCoordPointer, glVertexPointer, ...,
\* glVertexAttribPointer.
SetPointer(what, p) ==
  /\ Orderly => MayPoint(p)
  /\ StateCall(Call(IF kit.style = "conventional" THEN "Pointer" ELSE "AttribPointer", what, 0, p))
  /\ lost' = lost \ {Meant(program, what)}
  /\ woven' = woven \ {Meant(program, what)}

\* glInterleavedArrays, with a format of texture coordinates and vertices.
InterleavedArrays(m) ==
  LET now == {"vertex", program.unit} IN
  /\ Orderly => MayPoint(Client(m))
  /\ StateCall(Call("Interleaved", "texcoord", 0, Client(m)))
  /\ lost' = (lost \union woven) \ now
  /\ woven' = now

\* Arrays of client memory whose addresses both copies forget when the array
\* buffer is unbound.
Forgotten == {a \in Arrays : program.src[0][a][1] = "client"} \ woven

\* glBindBuffer(GL_ARRAY_BUFFER, b)
BindArray(b) ==
  /\ StateCall(Call("BindArray", "array", b, Null))
  /\ lost' = (IF b = 0 /\ program.vao = 0 THEN lost \union Forgotten ELSE lost)
  /\ UNCHANGED woven

\* glBindBuffer(GL_ELEMENT_ARRAY_BUFFER, b)
BindElement(b) ==
  /\ kit.style # "conventional"
  /\ Orderly => MayName
  /\ StateCall(Call("BindElement", "element", b, Null))
  /\ UNCHANGED <<lost, woven>>

\* glDeleteBuffers of one name
DeleteBuffers(b) ==
  /\ StateCall(Call("DeleteBuffer", "buffer", b, Null))
  /\ lost' = (IF b = program.arrayBuf /\ program.vao = 0 THEN lost \union Forgotten ELSE lost)
  /\ UNCHANGED woven

\* glBindVertexArray and glDeleteVertexArrays of one name
BindVao(v) ==
  /\ kit.style = "objects"
  /\ StateCall(Call("BindVao", "vao", v, Null))
  /\ UNCHANGED <<lost, woven>>

DeleteVao(v) ==
  /\ kit.style = "objects"
  /\ StateCall(Call("DeleteVao", "vao", v, Null))
  /\ UNCHANGED <<lost, woven>>

\* The program changes a block of its memory.  Interleaved arrays are sent with
\* one draw only, so they do not follow.
Write(m, v) ==
  /\ context /\ mem[m] # v
  /\ mem' = [mem EXCEPT ![m] = v]
  /\ lost' = IF guest.interleaved THEN lost
             ELSE lost \union {a \in woven : program.src[0][a] = Client(m)}
  /\ drawn' = NoDraw
  /\ UNCHANGED <<kit, program, woven, contexts, context, guest, fifo, deviceVars>>

\* The draws the code can serve: every enabled array is specified and not lost
\* since; arrays in client memory are used with no buffer bound at all, and all
\* of them as glInterleavedArrays left them when it is new.  The DLL's copy does not
\* know the arrays that glInterleavedArrays enables, nor the attributes that glEnable
\* does: such an array, when it is specified otherwise, has to be enabled again.  A vertex
\* array object stands for bound buffers, so its arrays are in buffers.  Interleaved data
\* are sent with one draw only, which has to send all that later ones use.
MayDraw(op, part) ==
  LET src == program.src[program.vao]
      used == ReadArrays(program)
      inMemory == {a \in used : src[a][1] = "client"} IN
  /\ used # {} /\ used \intersect lost = {}
  /\ \A a \in used : src[a][1] \in {"client", "buffer"}
  /\ inMemory # {} => /\ kit.style # "objects" /\ program.arrayBuf = 0
                      /\ op = "DrawElements" => program.elem[program.vao] = 0
                      /\ inMemory \subseteq
                           IF guest.interleaved THEN woven ELSE woven \union guest.on
  /\ op \in {"ArrayElement", "LockArrays"} => program.arrayBuf = 0
  /\ kit.style = "objects" => op = "DrawArrays" \/ program.elem[program.vao] # 0
  /\ woven # {} => part = Whole

\* A draw that does not begin with vertex 0 ends within half a cache of the array's
\* address: more than that the lookup does not promise.
MayReach(part) == part.first = 0 \/ part.first + part.size <= Half

\* glDrawArrays, glDrawElements and its variants, glArrayElement, glLockArraysEXT:
\* PushVertexArray of the DLL, and the call.
Draw(op, part) ==
  LET names == Carried(guest, op)
      valueOf(n) == IF n = "indices" THEN "index"
                    ELSE LET p == PlaceOf(guest, n) IN IF p[1] = "client" THEN mem[p[2]] ELSE "junk"
  IN /\ op \in {"ArrayElement", "LockArrays"} => kit.style = "conventional"
     /\ Orderly => MayDraw(op, part)
     /\ Near => MayReach(part)
     /\ Queued(DrawCall(op, part), names,
               [i \in DOMAIN names |-> valueOf(names[i])], Wanted(op))
     /\ guest' = AfterDraw(guest, op)
     /\ UNCHANGED <<lost, woven>>

-----------------------------------------------------------------------------
(* The device, executing the queue.                                        *)

DeviceTracks(c) == Tracked(device, c)

\* A call that is not a draw: pointers are exchanged (processArgs), the library
\* is called (doMesaFunc) and the device's copy follows (processFRet).
DeviceCall ==
  /\ fifo # <<>> /\ Head(fifo).call.op \notin Draws
  /\ LET c == Head(fifo).call IN
     /\ device' = DeviceTracks(Given(c))
     /\ library' = GLCall(library, Given(c))
     /\ cache' = IF Looks(c) THEN Looked(c.ptr[2]) ELSE cache
  /\ fifo' = Tail(fifo)
  /\ drawn' = NoDraw
  /\ UNCHANGED <<programVars, guest>>

\* What is copied for an array is more than half a cache: a warning.
Overflowed(taken, part) ==
  /\ part.size > Half
  /\ \E k \in DOMAIN taken : taken[k] # "indices"

\* A draw: PushVertexArray of the device, and the library's draw.
DeviceDraw ==
  /\ fifo # <<>> /\ Head(fifo).call.op \in Draws
  /\ LET op == Head(fifo).call.op
         part == Head(fifo).call.part
         taken == Carried(device, op) IN
     /\ cache' = Copied(taken, Head(fifo).data, part)
     /\ device' = AfterDraw(device, op)
     /\ drawn' = [sent |-> Head(fifo).names, taken |-> taken,
                  fits |-> \A k \in DOMAIN taken :
                             taken[k] = "indices" \/ Inside(PlaceOf(device, taken[k]), part),
                  reported |-> Overflowed(taken, part),
                  want |-> Head(fifo).want, got |-> Got(op, cache', part)]
  /\ fifo' = Tail(fifo)
  /\ UNCHANGED <<programVars, guest, library>>

\* The host keeps the OpenGL context of a deleted one for the next, so a program
\* must leave its client state as it found it.
MayLeave ==
  /\ \A v \in DOMAIN program.on : program.on[v] = {} /\ program.elem[v] = 0
  /\ program.arrayBuf = 0 /\ program.vao = 0 /\ program.unit = "tex0"

\* wglMakeCurrent(NULL) and wglDeleteContext: the register write finds the queue
\* executed; FreeVertex.
DeleteContext ==
  /\ context /\ contexts < MaxContexts
  /\ fifo = <<>>
  /\ Orderly => MayLeave
  /\ context' = FALSE
  /\ cache' = <<>>
  /\ library' = [library EXCEPT !.src =
       [v \in DOMAIN @ |-> [a \in Arrays |-> IF @[v][a][1] = "cache" THEN Wild ELSE @[v][a]]]]
  /\ drawn' = NoDraw
  /\ UNCHANGED <<kit, program, mem, lost, woven, contexts, guest, fifo, device>>

\* wglCreateContext: both sides start anew, the library's context is the old one.
CreateContext ==
  /\ ~context
  /\ context' = TRUE /\ contexts' = contexts + 1
  /\ program' = GLInit /\ lost' = {} /\ woven' = {}
  /\ guest' = NoClientState
  /\ device' = NoClientState
  /\ drawn' = NoDraw
  /\ UNCHANGED <<kit, mem, fifo, cache, library>>

Programs ==
  \/ \E u \in kit.units : ClientActiveTexture(u)
  \/ \E op \in {"Enable", "Disable"}, what \in kit.names : SwitchArray(op, what)
  \/ \E what \in kit.names, p \in {Client(m) : m \in kit.blocks} \union {Offset} :
       SetPointer(what, p)
  \/ kit.interleaves /\ \E m \in kit.blocks : InterleavedArrays(m)
  \/ \E b \in Buffers \union {0} : BindArray(b) \/ BindElement(b)
  \/ \E b \in Buffers : DeleteBuffers(b)
  \/ \E v \in Vaos \union {0} : BindVao(v)
  \/ \E v \in Vaos : DeleteVao(v)
  \/ \E m \in kit.blocks, v \in Values : Write(m, v)
  \/ \E op \in Draws, part \in kit.parts : Draw(op, part)
  \/ DeleteContext \/ CreateContext

Next == Programs \/ DeviceCall \/ DeviceDraw

Spec == Init /\ [][Next]_vars

-----------------------------------------------------------------------------
(* Properties                                                              *)

Address == {Null, Offset, Wild} \union {Client(m) : m \in Mem}
  \union {Source(b) : b \in Buffers}
  \union {Cached(e, off) : e \in 1 .. Cardinality(Mem), off \in 0 .. 2 * Size - 1}

CopyType == [on : SUBSET Arrays, ptr : [Arrays -> Address], unit : Units,
  arrayBuf : Buffers \union Vaos \union {0}, elemBuf : Buffers \union Vaos \union {0},
  vao : Vaos \union {0}, interleaved : BOOLEAN, interPtr : Address]

GLType == [vao : Vaos \union {0}, arrayBuf : Buffers \union {0}, unit : Units,
  on : [Vaos \union {0} -> SUBSET Arrays], src : [Vaos \union {0} -> [Arrays -> Address]],
  elem : [Vaos \union {0} -> Buffers \union {0}]]

\* The values of the variables.  No entry of the vertex cache starts at address zero or
\* below, which would wrap, and each has twice the size of the cache.
TypeOK ==
  /\ kit \in Kits /\ mem \in [kit.blocks -> Values]
  /\ lost \subseteq Arrays /\ woven \subseteq Arrays
  /\ program \in GLType /\ library \in GLType
  /\ guest \in CopyType /\ device \in CopyType
  /\ Len(fifo) <= kit.queue
  /\ contexts \in 1 .. MaxContexts /\ context \in BOOLEAN
  /\ \A e \in DOMAIN cache : cache[e].hi = cache[e].lo + 2 * Size /\ cache[e].lo > 0

\* The device takes from the queue's data exactly what the DLL put there for this
\* draw, array by array: the two decide it apart, the DLL when the program calls,
\* the device when it executes the call.  Not for a program that switches attributes
\* with glEnable and glDisable, which the device follows and the DLL does not.
InStep == kit.style # "caps" => drawn.sent = drawn.taken

\* Data are copied into the vertex cache only, and stay inside the entry that the
\* array's address was given from.
CopiesFit == drawn.fits

\* A draw reads what the program had in its arrays when it made the call: data of
\* client memory as they were then, even if the program has changed them since,
\* and buffer objects where it named them; but for a draw that was cut, with a warning.
DrawsRight == drawn.reported \/ drawn.want = drawn.got

\* What the device does not report as overflowed stays inside its entry (the warnings
\* "Array overflowed" of PushVertexArray).
OverflowReported == drawn.reported \/ drawn.fits

=============================================================================
