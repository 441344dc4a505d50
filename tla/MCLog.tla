-------------------------------- MODULE MCLog --------------------------------
(***************************************************************************)
(* Small instances of the logging model for TLC.                           *)
(***************************************************************************)
EXTENDS Log, TLC

\* Programs, by the functions that they use.
Loggers   == {"init", "term", "message", "sync", "flush"}
Forkers   == {"init", "term", "message", "fork", "term_all"}
Switchers == {"init", "term", "message", "autoflush", "logwrt"}
Rotaters  == {"init", "term", "message", "rotate", "clear"}
Stoppers  == {"init", "term", "message", "term_all", "enable", "disable"}
Debuggers == {"init", "term", "level"}
AllPrograms == {Debuggers, Loggers, Forkers, Switchers, Rotaters, Stoppers}

\* A third message is what it takes for a fork to catch the writer with a ring.
MessageBounds == [p \in AllPrograms |-> IF p = Forkers THEN 3 ELSE 2]

\* The user threads are interchangeable.
ThreadSymmetry == Permutations(Threads)
=============================================================================
