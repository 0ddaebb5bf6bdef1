--------------------------- MODULE WorkerRegistry ---------------------------
(***************************************************************************)
(* The worker registry (contracts/registry/src): curators enlist workers,  *)
(* and the owner of a worker's profile stakes tokens on it, which come     *)
(* back with rewards after a cooldown.  The stake is stored beside the     *)
(* profile, not in it, so that the two may part.                           *)
(*                                                                         *)
(* Left out: what a profile says (name, category, delegates, reputation,   *)
(* badges, subscription, ...) and with it the refusal of an unknown        *)
(* category, the order of the list, the limit of 20 to a batch, and        *)
(* upgrades.  "manager" is the curator manager.                            *)
(***************************************************************************)
EXTENDS Contract

CONSTANTS
  ProfileIds,
  Curators,    \* bound: the accounts that become curators
  Owners,      \* bound: the accounts profiles are registered for
  Cooldown,    \* UNSTAKE_COOLDOWN_SECS
  RewardScale, \* a reward is staked amount * seconds \div RewardScale
  MaxSeconds,  \* bound on ledger time
  MaxListed    \* bound: registrations of one id that are on the list

ASSUME RegistryAssumption ==
  /\ IsFiniteSet(ProfileIds)
  /\ Curators \subseteq Accounts /\ Owners \subseteq Accounts
  /\ Cooldown \in Nat /\ RewardScale \in Nat \ {0}
  /\ MaxSeconds \in Nat \ {0} /\ MaxListed \in Nat

VARIABLES
  chief,       \* DataKey::Admin: at most one account
  curators,    \* DataKey::Curators
  profile,     \* DataKey::Worker(id), or NoProfile
  listed,      \* DataKey::WorkerList: how often an id is on it
  counted,     \* DataKey::WorkerCount: a page of workers shows no more of the list
  stakeInfo,   \* DataKey::StakeInfo(id), or NoStake
  seconds,     \* env.ledger().timestamp()
  rewarded,    \* history: the rewards paid in a token
  strayed      \* history: what was staked in a token and recorded in another,
               \* less what was staked in another and recorded in it

workersVars == <<chief, curators, profile, listed, counted, stakeInfo, seconds, rewarded, strayed>>

NoProfile == [owner |-> {}, staked |-> 0]
NoStake   == [token |-> {}, amount |-> 0, requestedAt |-> 0, rewards |-> 0, since |-> 0]

WorkersInit ==
  /\ chief = {}
  /\ curators = {}
  /\ profile = [i \in ProfileIds |-> NoProfile]
  /\ listed = [i \in ProfileIds |-> 0]
  /\ counted = 0
  /\ stakeInfo = [i \in ProfileIds |-> NoStake]
  /\ seconds = 1
  /\ rewarded = [t \in TokenIds |-> 0]
  /\ strayed = [t \in TokenIds |-> 0]

Live(i) == profile[i].owner # {}
Owns(caller, i) == caller \in profile[i].owner

-----------------------------------------------------------------------------
InitializeRegistry(admin) ==
  /\ Initialize(admin)
  /\ chief' = {admin}
  /\ UNCHANGED <<curators, profile, listed, counted, stakeInfo, seconds, rewarded, strayed>>

\* The stored admin needs no role, which it may have lost, and no pause stops it.
SetAdmin(admin) ==
  /\ initialized
  /\ roles' = [roles EXCEPT !["admin"] = (@ \ chief) \union {admin}]
  /\ chief' = {admin}
  /\ UNCHANGED <<initialized, paused, balance, donated, donations>>
  /\ UNCHANGED <<curators, profile, listed, counted, stakeInfo, seconds, rewarded, strayed>>

SetCurators(caller, list) ==
  /\ RequireRole(roles["manager"], caller) /\ ~paused
  /\ curators' = list
  /\ UNCHANGED <<chainVars, chief, profile, listed, counted, stakeInfo, seconds, rewarded, strayed>>

AddCurator(caller, curator)    == SetCurators(caller, curators \union {curator})
RemoveCurator(caller, curator) == SetCurators(caller, curators \ {curator})

\* New profiles for some ids; their stakes, if there are any, stay as they are.
Enlist(owners) ==
  /\ profile' = [i \in ProfileIds |->
       IF i \in DOMAIN owners THEN [owner |-> {owners[i]}, staked |-> 0] ELSE profile[i]]
  /\ listed' = [i \in ProfileIds |-> listed[i] + IF i \in DOMAIN owners THEN 1 ELSE 0]
  /\ \A i \in ProfileIds : listed'[i] <= MaxListed
  /\ UNCHANGED <<chainVars, chief, curators, stakeInfo, seconds, rewarded, strayed>>

\* Whether the id is taken is not looked at: the profile there is replaced.
Register(curator, i, owner) ==
  /\ ~paused /\ curator \in curators
  /\ Enlist([j \in {i} |-> owner])
  /\ counted' = counted + 1

\* Here ids that are taken are passed over, a pause is not looked at, and those
\* who are enlisted are not counted.
BatchRegister(curator, owners) ==
  LET free == {i \in DOMAIN owners : ~Live(i)} IN
    /\ curator \in curators
    /\ Enlist([i \in free |-> owners[i]])
    /\ UNCHANGED counted

\* Takes the id off the list once and one off the count, whichever way it got
\* there, and leaves the stake behind.
Deregister(caller, i) ==
  /\ ~paused /\ Owns(caller, i)
  /\ profile' = [profile EXCEPT ![i] = NoProfile]
  /\ listed' = [listed EXCEPT ![i] = @ - 1]
  /\ counted' = IF counted > 0 THEN counted - 1 ELSE 0
  /\ UNCHANGED <<chainVars, chief, curators, stakeInfo, seconds, rewarded, strayed>>

-----------------------------------------------------------------------------
Staked(i) == stakeInfo[i].amount
Accrued(i) == stakeInfo[i].rewards + (Staked(i) * (seconds - stakeInfo[i].since)) \div RewardScale

\* The token is the one of the first stake ever made on the id, whatever is sent.
Stake(caller, i, t, amount) ==
  LET token == IF stakeInfo[i] = NoStake THEN {t} ELSE stakeInfo[i].token IN
    /\ amount > 0 /\ Owns(caller, i)
    /\ Moves(t, caller, Vault, amount)
    /\ stakeInfo' = [stakeInfo EXCEPT ![i] =
         [token |-> token, amount |-> Staked(i) + amount,
          requestedAt |-> 0, rewards |-> Accrued(i), since |-> seconds]]
    /\ profile' = [profile EXCEPT ![i].staked = Staked(i) + amount]
    /\ strayed' = [u \in TokenIds |-> strayed[u] + (IF u = t THEN amount ELSE 0)
                                                 - (IF u \in token THEN amount ELSE 0)]
    /\ UNCHANGED <<chief, curators, listed, counted, seconds, rewarded>>

RequestUnstake(caller, i) ==
  /\ Owns(caller, i) /\ Staked(i) > 0
  /\ stakeInfo[i].requestedAt = 0
  /\ stakeInfo' = [stakeInfo EXCEPT ![i].requestedAt = seconds]
  /\ UNCHANGED <<chainVars, chief, curators, profile, listed, counted, seconds, rewarded, strayed>>

\* The rewards come out of the contract's one balance, the stakes of all.  The
\* entry stays, and with it the token and the time of the last stake.
Unstake(caller, i) ==
  /\ Owns(caller, i) /\ Staked(i) > 0
  /\ stakeInfo[i].requestedAt # 0 /\ seconds >= stakeInfo[i].requestedAt + Cooldown
  /\ \E t \in stakeInfo[i].token :
       /\ Moves(t, Vault, caller, Staked(i) + Accrued(i))
       /\ rewarded' = [rewarded EXCEPT ![t] = @ + Accrued(i)]
  /\ stakeInfo' = [stakeInfo EXCEPT ![i].amount = 0, ![i].rewards = 0, ![i].requestedAt = 0]
  /\ profile' = [profile EXCEPT ![i].staked = 0]
  /\ UNCHANGED <<chief, curators, listed, counted, seconds, strayed>>

Second ==
  /\ seconds < MaxSeconds
  /\ seconds' = seconds + 1
  /\ UNCHANGED <<chainVars, chief, curators, profile, listed, counted, stakeInfo, rewarded, strayed>>

WorkersNext ==
  \/ Administer(TRUE, "pauser") /\ UNCHANGED workersVars
  \/ Second
  \/ \E c \in Deployers : InitializeRegistry(c)
  \/ \E p \in Powers : p[1] = "admin" /\ SetAdmin(p[2])
  \/ \E c \in Accounts :
       \/ \E k \in Curators : AddCurator(c, k) \/ RemoveCurator(c, k)
       \/ \E S \in SUBSET ProfileIds : \E owners \in [S -> Owners] : BatchRegister(c, owners)
       \/ \E i \in ProfileIds :
            \/ \E o \in Owners : Register(c, i, o)
            \/ Deregister(c, i) \/ RequestUnstake(c, i) \/ Unstake(c, i)
            \/ \E t \in TokenIds, a \in Amounts : Stake(c, i, t, a)

WorkersSpec == ContractInit(TokenIds) /\ WorkersInit /\ [][WorkersNext]_<<chainVars, workersVars>>

-----------------------------------------------------------------------------
\* What stakes are recorded in token t.
Owed(t) == Total({i \in ProfileIds : t \in stakeInfo[i].token},
                 [i \in ProfileIds |-> Staked(i)])

\* The shape of the state; a worker is on the list as long as it is live, and the
\* count is never beyond the end of the list, which list_workers_page reads as far
\* as the count goes (it falls short by workers enlisted in a batch).
WorkersTypeOK ==
  /\ chief \in SUBSET Accounts /\ curators \in SUBSET Accounts
  /\ profile \in [ProfileIds -> [owner : SUBSET Accounts, staked : Nat]]
  /\ listed \in [ProfileIds -> 0..MaxListed]
  /\ counted \in 0..Total(ProfileIds, listed)
  /\ stakeInfo \in [ProfileIds -> [token : SUBSET TokenIds, amount : Nat, rewards : Nat,
                                   requestedAt : 0..MaxSeconds, since : 0..MaxSeconds]]
  /\ seconds \in 1..MaxSeconds
  /\ rewarded \in [TokenIds -> Nat] /\ strayed \in [TokenIds -> Int]
  /\ \A i \in ProfileIds : Live(i) => listed[i] > 0

\* The contract comes short of the stakes it owes only by the rewards it paid
\* out of them and by stakes recorded in another token than they were made in.
\* A profile boasts no more than what is staked on it, nothing if it is newer
\* than the stake; and a request to unstake is never older than the last stake,
\* so that no stake leaves on the cooldown of an earlier one.
StakesExplained ==
  /\ \A t \in TokenIds :
       balance[t][Vault] + rewarded[t] = Owed(t) + donated[t] + strayed[t]
  /\ \A i \in ProfileIds :
       /\ profile[i].staked \in {0, Staked(i)}
       /\ stakeInfo[i].requestedAt # 0 => stakeInfo[i].requestedAt >= stakeInfo[i].since

\* docs/CONTRACT_SECURITY.md:21, "Staked tokens are always held by the contract
\* until `unstake` after cooldown": the contract holds what it owes the stakers.
\* It does not: whoever unstakes first takes rewards out of the others' stakes.
StakesHeld == \A t \in TokenIds : Owed(t) <= balance[t][Vault]
=============================================================================
