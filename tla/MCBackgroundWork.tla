--------------------------- MODULE MCBackgroundWork ---------------------------
EXTENDS BackgroundWork

CONSTANTS w1, w2, m1, m2, s1, s2

\* Two helpers; a frame's helper beside a compiler; two compilers for a method
\* met in two class files; one for two methods that do not both fit.
MCMachines == {
  [helpers |-> 2, items |-> 3, compilers |-> {}, code |-> {}],
  [helpers |-> 1, items |-> 1, compilers |-> {w1}, code |-> {<<m1, s1>>}],
  [helpers |-> 0, items |-> 0, compilers |-> {w1, w2}, code |-> {<<m1, s1>>, <<m1, s2>>}],
  [helpers |-> 0, items |-> 0, compilers |-> {w1}, code |-> {<<m1, s1>>, <<m2, s1>>}]}
=============================================================================
