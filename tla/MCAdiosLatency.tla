--------------------------- MODULE MCAdiosLatency ---------------------------
(* Two CPUs, small reads and large ones of two sizes, a small write.         *)
EXTENDS AdiosLatency

CONSTANTS c1, c2

SmallRead  == [op |-> 0, size |-> 4096, pos |-> 8]
MediumRead == [op |-> 0, size |-> 5120, pos |-> 8]
LargeRead  == [op |-> 0, size |-> 8192, pos |-> 8]
SmallWrite == [op |-> 1, size |-> 4096, pos |-> 1000]
Flush      == [op |-> 3, size |-> 512, pos |-> 0]

Setup(cpus, spinning, kinds, ops, times, bounds) ==
  [online |-> cpus, rotational |-> spinning, kinds |-> kinds, stored |-> ops, times |-> times,
   requests |-> bounds[1], stores |-> bounds[2], failures |-> bounds[3]]

MCCPUs == {c1, c2}
MCSetups ==
  {Setup({c1}, FALSE, {SmallRead, MediumRead, LargeRead}, {}, {3, 90}, <<4, 0, 0>>),
   Setup({c1}, FALSE, {SmallRead, LargeRead}, {}, {3, 90}, <<3, 0, 1>>),
   Setup({c1}, FALSE, {SmallRead, LargeRead}, {0}, {3, 90}, <<2, 1, 0>>),
   Setup({c1}, TRUE, {SmallRead, SmallWrite, Flush}, {}, {3, 90}, <<3, 0, 0>>),
   Setup({c1, c2}, FALSE, {SmallRead}, {0}, {3}, <<1, 1, 1>>),
   Setup({c1, c2}, FALSE, {SmallRead}, {0}, {3}, <<2, 1, 0>>),
   Setup({c1, c2}, FALSE, {SmallRead, LargeRead}, {}, {3}, <<2, 0, 0>>),
   Setup({c1, c2}, FALSE, {SmallRead}, {}, {3}, <<3, 0, 0>>)}
MixedSetups == {Setup({c1}, FALSE, {SmallRead, SmallWrite}, {}, {3, 90}, <<3, 0, 0>>)}

MCLoads == {[base |-> 2, slope |-> 1]}
=============================================================================
