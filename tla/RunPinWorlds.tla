---------------------------- MODULE RunPinWorlds ----------------------------
(* What a fixture run is pinned by, in two worlds: its implementations       *)
(* (ImplementationRegistry) and its identities (RunIdentity).  Only one of   *)
(* them takes steps in a behavior.                                           *)
EXTENDS ImplementationRegistry, Integers

CONSTANTS PlannedSpecs, PlannedRuntimes,     \* of the commands that are planned
          FullCost, MaxDigits, MaxAdjusted, MaxFixedCharacters

VARIABLES world, commands, next, plans

planVars == <<commands, next, plans>>

Ids == INSTANCE RunIdentity WITH Specs <- PlannedSpecs, Runtimes <- PlannedRuntimes

ASSUME PlansAssumption == /\ PlannedSpecs \subseteq Ids!FixtureRunSpec
                          /\ MaxDigits \in Nat /\ MaxAdjusted \in Nat

\* In the world of the commands the registry stays as one installation left it.
AtRest ==
    /\ runtime = CHOOSE r \in Runtimes : TRUE
    /\ LET r == CHOOSE x \in Registries : TRUE IN disk = r.disk /\ declared = r.declared

PinsInit ==
    /\ Init
    /\ \/ /\ world = "registry"
          /\ commands = <<>> /\ next = 1 /\ plans = <<>>
       \/ world = "identities" /\ AtRest /\ Ids!Init

PinsNext ==
    \/ world = "registry" /\ Next /\ UNCHANGED <<world, planVars>>
    \/ world = "identities" /\ Ids!Next /\ UNCHANGED <<world, vars>>

PinsSpec ==
    /\ PinsInit /\ [][PinsNext]_<<world, vars, planVars>>
    /\ WF_<<world, vars, planVars>>(world = "registry" /\ CallStep /\ UNCHANGED <<world, planVars>>)

\* Equal fixture-run-spec ids mean equal runs, and the other way round; every
\* layer that hashes numbers identifies the same amounts (RunIdentity).
SpecIdIsScience == world = "identities" => Ids!SpecIdIsScience /\ Ids!AmountsAreCanonical
=============================================================================
