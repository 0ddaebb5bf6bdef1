----------------------------- MODULE MCContracts -----------------------------
(***************************************************************************)
(* The instances of Payment, FeeDistribution, InsurancePool, JobRegistry,  *)
(* Reputation and WorkerRegistry that TLC checks, in one run.  The         *)
(* contracts never call each other; each behaviour deploys one of them,    *)
(* and the variables that they share (Contract) are that contract's.       *)
(***************************************************************************)
EXTENDS Payment, FeeDistribution, InsurancePool, JobRegistry, Reputation,
        WorkerRegistry

CONSTANTS alice, bob, carol, t1

VARIABLE deployed

storage == <<paymentVars, distributionVars, poolVars, registered, reputationVars, workersVars>>
vars == <<deployed, chainVars, storage>>

\* bob may become a pauser and a manager, alice a second administrator.
SomePowers == {<<"pauser", bob>>, <<"manager", bob>>, <<"admin", alice>>}

SomePairs == {<<alice, bob>>, <<bob, alice>>}

\* Shares that round, an account twice with the contract itself, and shares short
\* of the whole.
SomeSplits == {<<[to |-> alice, bps |-> 3333], [to |-> carol, bps |-> 6667]>>,
               <<[to |-> carol, bps |-> 4000], [to |-> Vault, bps |-> 1500],
                 [to |-> carol, bps |-> 4500]>>,
               <<[to |-> alice, bps |-> 9999]>>}

Init ==
  /\ deployed \in {"payment", "fee_distribution", "insurance_pool", "job_registry",
                  "reputation", "registry"}
  \* the second token is for the registry, which mixes them
  /\ ContractInit(IF deployed = "registry" THEN TokenIds ELSE {t1})
  /\ PaymentInit /\ DistributionInit /\ PoolInit /\ RegistryInit /\ ReputationInit /\ WorkersInit

Next ==
  /\ UNCHANGED deployed
  /\ \/ /\ deployed = "payment" /\ PaymentNext
        /\ UNCHANGED <<distributionVars, poolVars, registered, reputationVars, workersVars>>
     \/ /\ deployed = "fee_distribution" /\ DistributionNext
        /\ UNCHANGED <<paymentVars, poolVars, registered, reputationVars, workersVars>>
     \/ /\ deployed = "insurance_pool" /\ PoolNext
        /\ UNCHANGED <<paymentVars, distributionVars, registered, reputationVars, workersVars>>
     \/ /\ deployed = "job_registry" /\ RegistryNext
        /\ UNCHANGED <<paymentVars, distributionVars, poolVars, reputationVars, workersVars>>
     \/ /\ deployed = "reputation" /\ ReputationNext
        /\ UNCHANGED <<paymentVars, distributionVars, poolVars, registered, workersVars>>
     \/ /\ deployed = "registry" /\ WorkersNext
        /\ UNCHANGED <<paymentVars, distributionVars, poolVars, registered, reputationVars>>

Spec == Init /\ [][Next]_vars

\* The shape of the state of every contract.
ContractsTypeOK ==
  /\ ContractTypeOK
  /\ PaymentTypeOK /\ DistributionTypeOK /\ PoolTypeOK /\ RegistryTypeOK
  /\ ReputationTypeOK /\ WorkersTypeOK

\* What each contract holds is what its books say: see PaymentCovered,
\* FeesCovered, PoolReconciles and StakesExplained.
BooksMatchBalances ==
  /\ deployed = "payment"          => PaymentCovered
  /\ deployed = "fee_distribution" => FeesCovered
  /\ deployed = "insurance_pool"   => PoolReconciles
  /\ deployed = "registry"         => StakesExplained

\* In the contracts whose pause freezes the roles and is lifted by a pauser, it
\* can be lifted.
PausesCanBeLifted == deployed \in {"job_registry", "reputation", "registry"} => PauseCanBeLifted
=============================================================================
