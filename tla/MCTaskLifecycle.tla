--------------------------- MODULE MCTaskLifecycle ---------------------------
EXTENDS LifecycleInvariant, TLC
CONSTANTS p1, p2, r1, t1, t2

OneTaskNoParent == [t \in {t1} |-> NoParent]
DoneTask == [NoTask EXCEPT !.dir = "tasks", !.status = "done", !.completedAt = "recent"]
DoneInitially == {DoneTask}
ArchivedTask == [DoneTask EXCEPT !.dir = "archive", !.archivedAt = TRUE]
AnyInitially == {NoTask, DoneTask, ArchivedTask}

ProcSymmetry == Permutations({p1, p2})
=============================================================================
