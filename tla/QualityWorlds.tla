--------------------------- MODULE QualityWorlds ---------------------------
(* Three worlds over the same variables: the rows of one provider, the life  *)
(* of a report over the sources of several, and the sources that the two     *)
(* adapters normalize.  Only one of them takes steps in a behavior.          *)
EXTENDS Providers, Releases

CONSTANTS RowQueries, RowSources, RowBars,       \* of the world of rows
          LifeQueries, LifeSources, LifeBars     \* of the life of a report

VARIABLE world

OneProvider == INSTANCE QualitySuite
                   WITH Queries <- RowQueries, Sources <- RowSources, Bars <- RowBars,
                        MaxSources <- 1, MaxRevisions <- 0, MaxReports <- 0
Life == INSTANCE QualitySuite
            WITH Queries <- LifeQueries, Sources <- LifeSources, Bars <- LifeBars,
                 MaxSources <- 2, MaxBars <- 1, MaxRevisions <- 1, MaxReports <- 1

ASSUME WorldsAssumption == /\ OneProvider!InputAssumption /\ OneProvider!RankAssumption
                           /\ Life!InputAssumption /\ Life!RankAssumption

WorldsInit == \/ world = "rows" /\ OneProvider!Init /\ captured = [v \in Adapter |-> None]
              \/ world = "life" /\ Life!Init /\ captured = [v \in Adapter |-> None]
              \/ world = "fetch" /\ FetchInit
WorldsNext == /\ UNCHANGED world
              /\ \/ world = "rows" /\ OneProvider!Next /\ UNCHANGED captured
                 \/ world = "life" /\ Life!Next /\ UNCHANGED captured
                 \/ world = "fetch" /\ FetchNext
WorldsSpec == WorldsInit /\ [][WorldsNext]_<<fetchVars, world>>
-----------------------------------------------------------------------------

\* What the adapters normalize is the same in whatever order the vendor answers,
\* always reported on, and never faulted row by row (Providers); the other
\* worlds' rows come from no adapter.
AdaptersSatisfySuite == world = "fetch" => NormalizationIsCanonical /\ NormalizedIsReported

\* Two comparisons of the closes agree on histories that were normalized
\* (Providers).
ClosesCompareAlike == world = "fetch" => ComparisonsAgree
=============================================================================
