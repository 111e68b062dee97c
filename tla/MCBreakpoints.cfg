SPECIFICATION Spec
CONSTANTS
  Ram = {r1, r2, r3}
  Rom = {o1}
  Bad = {x1}
  Words = {w, udf}
  Udf = udf
  BP_INSN = bp
  BP_MAX = 2
  StubPc = x1
SYMMETRY Symmetry
INVARIANTS TypeOK Overlay StepStays
PROPERTIES TrapMeansPatch
