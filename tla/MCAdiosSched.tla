--------------------------- MODULE MCAdiosSched ---------------------------
(***************************************************************************)
(* Values of the constants of AdiosSched for the model-checking runs.      *)
(* Times and latencies are small multiples of the quantum; the limits are  *)
(* scaled down so that four requests can reach them.                       *)
(***************************************************************************)
EXTENDS AdiosSched

K(op, sync, head, start, pos) ==
  [op |-> op, sync |-> sync, head |-> head, start |-> start, pos |-> pos]

\* A synchronous read, an asynchronous write and a flush.
SsdKinds == {K("read", TRUE, FALSE, 0, 0), K("write", FALSE, FALSE, 0, 0),
             K("flush", FALSE, FALSE, 0, 0)}

\* Every way in: into a tree, by merging, behind a flush; a request the
\* driver gives back comes in at the head.
PathKinds == {K("read", TRUE, FALSE, 0, 0), K("read", TRUE, FALSE, 4, 0),
              K("flush", FALSE, FALSE, 0, 0)}

\* Writes on both sides of the disk, a discard between them and a flush.
HddKinds == {K("write", FALSE, FALSE, 0, 9), K("write", FALSE, FALSE, 0, 2),
             K("discard", FALSE, FALSE, 0, 5),
             K("flush", FALSE, FALSE, 0, 0)}

\* What warms the models up, and a request inserted at the head.
ColdKinds == {K("read", TRUE, FALSE, 0, 0), K("write", FALSE, FALSE, 0, 0),
              K("write", TRUE, TRUE, 0, 0)}

Limits  == [o \in OpTypes |-> IF o < 2 THEN 2 ELSE 1]
HddLimits == [o \in OpTypes |-> IF o < 2 THEN 3 ELSE 1]
Targets == [o \in OpTypes |-> CASE o = 0 -> 2 [] o = 1 -> 8 [] o = 2 -> 12 [] OTHER -> 0]
\* adios_prio_to_wmult at default_dl_prio: reads weigh 172, other requests 1024.
Weights == [i \in Bit |-> IF i = 0 THEN 172 ELSE 1024]

\* A device just attached, or one that has been in use.
EitherSpec == (Init \/ WarmInit) /\ [][Next]_vars

\* CPUs are interchangeable.
CpuSymmetry == Permutations(CPUs)
===========================================================================
