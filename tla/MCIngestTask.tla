---------------------------- MODULE MCIngestTask ----------------------------
(***************************************************************************)
(* Instances of IngestTask.  In the first, two batches carry the root span *)
(* of t1 (a client that sent it twice) and one of them a child span of t2. *)
(* In the second, b1 carries the root span of t1 and b2 only child spans.  *)
(***************************************************************************)
EXTENDS IngestTask, TLC

CONSTANTS b1, b2, t1, t2

SomeWorkers == Permutations(Worker)

MCTouches == (b1 :> {t1, t2}) @@ (b2 :> {t1})
MCRoots   == (b1 :> {t1}) @@ (b2 :> {t1})

OneTraceTouches == (b1 :> {t1}) @@ (b2 :> {t1})
OneRootRoots    == (b1 :> {t1}) @@ (b2 :> {})
=============================================================================
