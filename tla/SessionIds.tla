----------------------------- MODULE SessionIds -----------------------------
(***************************************************************************)
(* SessionIdManager: the ids of the sessions of one server process.  The   *)
(* manager keeps a stack of available ids and the set of those in use; as  *)
(* every id is in exactly one of the two, a pool is the stack alone.       *)
(***************************************************************************)
EXTENDS Naturals, SequencesExt

CONSTANT MaxSessionIDs   \* 500

ASSUME MaxSessionIDsAssumption == MaxSessionIDs \in Nat \ {0}

Ids == 1 .. MaxSessionIDs
NoId == 0

\* The constructor pushes the ids from 1: the greatest is handed out first.
FullPool == [i \in Ids |-> i]

HasId(pool) == pool # << >>
NewSessionID(pool) == pool[Len(pool)]

\* mutant: the id stays on the stack
WithNewSessionIDStill(pool) == pool

\* The stack once its top has been handed out.
WithoutNewSessionID(pool) == SubSeq(pool, 1, Len(pool) - 1)

\* mutant: any id is pushed, whether in use or not, and off by one
WithReleasedNext(pool, id) == Append(pool, id + 1)

\* An id that is not in use is not released again.
WithReleased(pool, id) == IF id \in ToSet(pool) THEN pool ELSE Append(pool, id)
=============================================================================
