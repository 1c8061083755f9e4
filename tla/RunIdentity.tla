----------------------------- MODULE RunIdentity -----------------------------
(***************************************************************************)
(* The identities of a fixture run: experiment_id (core/models.py over     *)
(* core/identity.py), fixture_run_spec_id and run_id                       *)
(* (application/contracts.py), for two commands planned one after another. *)
(*                                                                         *)
(* An amount is a decimal of CanonicalDecimals; an                         *)
(* instant is [utc, offset].  A spec keeps the fields that can be written  *)
(* in several ways: [cash, commission, slippage, start].  A hash is what   *)
(* it fingerprints: two of them are equal when their preimages are.        *)
(***************************************************************************)
EXTENDS CanonicalDecimals

CONSTANTS
    Specs,       \* specs that are submitted
    Runtimes,    \* source commit, environment lock, worker
    FullCost     \* slippage of 10000 basis points

VARIABLES
    commands,    \* [spec, runtime] of the two commands
    next,        \* the command to be planned
    plans        \* the results of the commands that were accepted

vars == <<commands, next, plans>>

-----------------------------------------------------------------------------
(* Specs *)

FixtureRunSpec == [cash : Decimal, commission : Decimal, slippage : Decimal,
                   start : [utc : Int, offset : Int]]

\* The validators of FixtureRunSpec and of the models in it.
Admitted(spec) ==
    /\ Less(Zero, spec.cash)
    /\ ~Less(spec.commission, Zero)
    /\ ~Less(spec.slippage, Zero)
    /\ Less(spec.slippage, FullCost)

\* stable_hash of the ExperimentConfig: dates and decimals as they are written.
ExperimentId(spec) ==
    [commission |-> Fixed(spec.commission), slippage |-> Fixed(spec.slippage),
     start |-> spec.start]

FixtureRunSpecId(spec) ==
    [cash |-> Number(spec.cash), commission |-> Number(spec.commission),
     slippage |-> Number(spec.slippage), start |-> spec.start.utc]

RunId(spec, runtime) ==
    [experiment |-> ExperimentId(spec), spec |-> FixtureRunSpecId(spec),
     runtime |-> runtime]

-----------------------------------------------------------------------------

Init ==
    /\ \E s, t \in Specs, r, q \in Runtimes :
         commands = <<[spec |-> s, runtime |-> r], [spec |-> t, runtime |-> q]>>
    /\ next = 1
    /\ plans = <<>>

PlanOf(c) == [experiment_id |-> ExperimentId(c.spec),
              fixture_run_spec_id |-> FixtureRunSpecId(c.spec),
              run_id |-> RunId(c.spec, c.runtime)]

\* PlanResult.create.
Plan ==
    /\ next <= 2
    /\ Admitted(commands[next].spec)
    /\ plans' = [p \in DOMAIN plans \cup {next} |->
                    IF p = next THEN PlanOf(commands[next]) ELSE plans[p]]
    /\ next' = next + 1
    /\ UNCHANGED commands

\* The command does not pass its validators.
Reject ==
    /\ next <= 2
    /\ ~Admitted(commands[next].spec)
    /\ next' = next + 1
    /\ UNCHANGED <<commands, plans>>

Next == Plan \/ Reject

Spec == Init /\ [][Next]_vars

-----------------------------------------------------------------------------
(* Properties *)

\* Python's == of two configs: numbers, not digits; instants, not offsets.
SameExperiment(s, t) ==
    /\ SameNumber(s.commission, t.commission)
    /\ SameNumber(s.slippage, t.slippage)
    /\ s.start.utc = t.start.utc

SameScience(s, t) == SameExperiment(s, t) /\ SameNumber(s.cash, t.cash)

\* Two accepted commands share their fixture-run-spec id exactly when they mean
\* the same run, however their numbers and instants were written; and two runs
\* share a run id only when spec and runtime are the same.
SpecIdIsScience ==
    \A p, q \in DOMAIN plans :
        LET same == SameScience(commands[p].spec, commands[q].spec) IN
        /\ plans[p].fixture_run_spec_id = plans[q].fixture_run_spec_id <=> same
        /\ plans[p].run_id = plans[q].run_id
             => same /\ commands[p].runtime = commands[q].runtime

\* The amounts of the commands have the same identity in every layer that
\* hashes numbers (CanonicalDecimals).
AmountsAreCanonical ==
    FormsAgree(UNION {{commands[k].spec.cash, commands[k].spec.commission,
                       commands[k].spec.slippage} : k \in DOMAIN commands})

\* core/models.py: "Equal configs must always receive the same experiment ID."
EqualConfigsShareId ==
    \A p, q \in DOMAIN plans :
        SameExperiment(commands[p].spec, commands[q].spec)
            => plans[p].experiment_id = plans[q].experiment_id
=============================================================================
