---------------------------- MODULE MCWorkerView ----------------------------
\* Two workers that see each other: Me is 1.
EXTENDS WorkerView

\* Either worker may be the closer one, or both as close.
EitherCloser == {<<1, 2>>, <<2, 1>>, <<1, 1>>}
=============================================================================
