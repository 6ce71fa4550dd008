\* Three stages, so that a stage has a pipe on both sides; pipes that block
\* after one write and programs with two; at most one redirection.
CONSTANTS
    N = 3
    Cap = 1
    Lines = 2
    Redirs = 1
SPECIFICATION Spec
INVARIANTS EofIsFinal SigpipeIsFinal OwnPipesOnly NothingLeft ResultOfLastCommand
PROPERTIES ChainReturns
CHECK_DEADLOCK FALSE
