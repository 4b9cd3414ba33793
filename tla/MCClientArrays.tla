---------------------------- MODULE MCClientArrays ----------------------------
(* Two blocks that need an entry of the vertex cache each, in either order,  *)
(* and programs that use a part of the entry points each.  With Size = 4 a   *)
(* draw is cut after two bytes.                                              *)
EXTENDS ClientArrays

MCMem == {3, 8}

Second == [first |-> 1, size |-> 1]     \* all but the first byte of a block
Long == [first |-> 0, size |-> 5]       \* cut; it would not end in its entry
Far == [first |-> 5, size |-> 2]        \* not cut, and does not end in its entry

Kit(style, names, units, interleaves, blocks, parts, queue) ==
  [style |-> style, names |-> names, units |-> units, interleaves |-> interleaves,
   blocks |-> blocks, parts |-> parts, queue |-> queue]

MCKits == {
  Kit("conventional", {"texcoord"}, Units, FALSE, {3}, {Whole}, 2),
  Kit("conventional", {"vertex", "texcoord"}, {}, TRUE, {3}, {Whole, Second}, 1),
  Kit("attribs", {"vertex"}, {}, FALSE, MCMem, {Whole, Second, Long}, 1),
  Kit("attribs", {"vertex", "tex0"}, {}, FALSE, {8}, {Whole}, 1),
  Kit("objects", {"vertex", "tex0"}, {}, FALSE, {}, {Whole}, 2),
  Kit("objects", {"vertex"}, {}, FALSE, {3}, {Whole}, 1),
  Kit("caps", {"vertex", "tex0"}, {}, FALSE, {3}, {Whole}, 1)}

MCKitsFar == {Kit("attribs", {"vertex"}, {}, FALSE, {3}, {Whole, Far}, 1)}
=============================================================================
