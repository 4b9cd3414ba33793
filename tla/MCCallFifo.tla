---------------------------- MODULE MCCallFifo ----------------------------
(* Small instances of CallFifo: four kinds of stub, a FIFO and a data area  *)
(* that fill up after two or three calls.                                   *)
EXTENDS CallFifo

(* state: glEnable-like, no data;  draw: one vertex;  tex: a descriptor and a *)
(* block whose size is not a multiple of 8;  query: traps, carries a block.   *)
MCFuncs == {"state", "draw", "tex", "query"}
MCQueued == {"state", "draw", "tex"}
MCNumArgs == [f \in MCFuncs |-> CASE f = "state" -> 0 [] f = "draw" -> 1 [] f = "tex" -> 2
                                  [] f = "query" -> 1]
MCHeadBytes == [f \in MCFuncs |-> CASE f = "state" -> 0 [] f = "draw" -> 4 [] f = "tex" -> 4
                                    [] f = "query" -> 0]
MCBodyBytes == [f \in MCFuncs |-> CASE f = "tex" -> 9 [] f = "query" -> 4 [] OTHER -> 0]

(* The Mesa device: glDebugMessageInsertARB is executed without a context;    *)
(* glGetString, which the ICD itself calls early, carries no data;            *)
(* glAreTexturesResident traps and carries data.                              *)
MesaFuncs == {"state", "tex", "string", "resident", "message"}
MesaQueued == {"state", "tex"}
MesaUngated == {"message"}
MesaNumArgs == [f \in MesaFuncs |-> CASE f = "state" -> 0 [] f = "tex" -> 2 [] OTHER -> 1]
MesaHeadBytes == [f \in MesaFuncs |-> IF f \in {"tex", "resident"} THEN 4 ELSE 0]
MesaBodyBytes == [f \in MesaFuncs |-> CASE f = "tex" -> 9 [] f = "message" -> 5 [] OTHER -> 0]
===========================================================================
