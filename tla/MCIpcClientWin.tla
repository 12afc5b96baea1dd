--------------------------- MODULE MCIpcClientWin ---------------------------
\* Small instances of IpcClientWin for TLC.
EXTENDS IpcClientWin, TLC

SyncAndOwn == {"sync", "own"}
OwnOnly == {"own"}
DefaultCbid == {"async", "oneway"}

\* Sound where only safety is checked: no definition names a thread.
ThreadSymmetry == Permutations(Threads)
=============================================================================
