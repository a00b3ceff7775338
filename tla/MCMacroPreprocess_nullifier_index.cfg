\* A nullifiers index strconv.Atoi rejects empties the whole program.
CONSTANT Programs <- BadIndexPrograms
SPECIFICATION Spec
INVARIANT ProgramNotErased
