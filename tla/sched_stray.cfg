SPECIFICATION Spec
CONSTANTS
  A = A
  B = B
  C = C
  D = D
  T = T
  r1 = r1
  r2 = r2
  r3 = r3
  r4 = r4
  r5 = r5
  r6 = r6
  q1 = q1
  q2 = q2
  Production = {r1, r2, r3, r4, r5, r6}
  Precondition = {q1, q2}
  Property = {A, B, C, D, T}
  Final = final
  Expensive = 100
  Problem <- StrayProblem
INVARIANT SuccessMeansProvided
