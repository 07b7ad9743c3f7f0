\* Both configurations of MCBeerNetCheck (pipeline, faults, requests and life).
CONSTANTS
    s1 = s1
    s2 = s2
    pk = pk
SPECIFICATION Spec
 
INVARIANT WrcntCountsPending
INVARIANT RepliesAnswerWritten
INVARIANT ReloadReflectsServer
INVARIANT NoDoubleFree
INVARIANT StreamFreeReleasesAll
PROPERTY ReloadTerminates
PROPERTY CompileResultTellsWrite
\* The caller may stop at any point.
CHECK_DEADLOCK FALSE
