\* Continuations of a superblock, whether or not they name the register that is
\* carried through them; the order of the Makefile.
CONSTANTS
  Blocks <- Continuations
  Pipelines <- MakefileOrder
SPECIFICATION Spec
INVARIANT NativeValuesKept
CHECK_DEADLOCK TRUE
