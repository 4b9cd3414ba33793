---------------------------- MODULE MCGLContexts ----------------------------
(* A small instance of GLContexts: a stack of four, two attribute lists, two *)
(* pbuffers, and programs with many contexts or with some and pbuffers.      *)
EXTENDS GLContexts

MCAttribs == {"core", "compat"}

MCKits == {[created |-> MaxCreated, pbuffers |-> FALSE], [created |-> 4, pbuffers |-> TRUE]}
============================================================================
