------------------------------ MODULE Deployment ------------------------------
(***************************************************************************)
(* The deployment of a market: the hardhat-deploy scripts under src/deploy *)
(* and the operator's tasks under src/tasks, run against the address       *)
(* books, the ACL manager and the reserves list they set up.               *)
(*                                                                         *)
(* A script or task is a sequence of steps, each a transaction, a record   *)
(* kept on disk or a read of the chain that decides the steps to come.     *)
(* Any step may revert or throw, which ends the run, and the process may   *)
(* die between any two steps; the operator then runs again, from scratch   *)
(* (deploy --reset) or on top of what is there.                            *)
(***************************************************************************)
EXTENDS Integers, Sequences, FiniteSets, SequencesExt

CONSTANTS
    Markets,       \* records [testnet, addresses, treasury]: isTestnetMarket on a
                   \* network that is not live, ReserveAssets given for it,
                   \* ReserveFactorTreasuryAddress
    FirstAssets,   \* the keys of ReservesConfig, in their order
    LaterAssets,   \* assets the operator may add to ReservesConfig afterwards
    Expected,      \* pairs <<kind, asset>>: the settings ReservesConfig asks for
    Foreign,       \* artifacts of contracts no script deploys
    MaxCrashes     \* bound: how often the process dies

\* The accounts: hardhat's named accounts all default to account 0, the
\* deployer; the desired admin is POOL_ADMIN of the network.
Deployer == "deployer"
Multisig == "desiredAdmin"
Helper   == "ReservesSetupHelper"
Accounts == {Deployer, Multisig, Helper}
None     == "0x0"

Ownable    == {"Registry", "Provider", "EmissionManager", "Gateway"}
Roles      == {"DEFAULT_ADMIN", "POOL_ADMIN", "EMERGENCY_ADMIN", "RISK_ADMIN"}
Assets     == Range(FirstAssets) \cup LaterAssets
InitChunks == 3

\* The symbol of the asset before TESTNET_PRICE_AGGR_PREFIX.
Aggregator(a) == a \o "-PriceAggregator"

\* Symbols of tokens are not ids of contracts, and what the operator saves from
\* elsewhere are no contracts of the scripts.
Contracts == Ownable \cup {"Oracle", "ACLManager", "NextRSToken"}

ASSUME DeploymentAssumption ==
    /\ FirstAssets \in Seq(Assets) /\ Range(FirstAssets) \cap LaterAssets = {}
    /\ Contracts \cap (Assets \cup {Aggregator(a) : a \in Assets} \cup Foreign) = {}
    /\ Expected \subseteq {"stable", "ceiling", "isolation", "fee", "eMode"} \X Assets
    /\ MaxCrashes \in Nat

VARIABLES
    market,        \* the configuration chosen by MARKET_NAME and the network
    config,        \* the keys of its ReservesConfig, in their order
    artifacts,     \* ids saved in the deployments directory
    migrations,    \* ids of the scripts hardhat-deploy has recorded as run
    initialized,   \* implementations and proxies whose initialize() has run
    power,         \* pairs <<contract or role, account>>: owners and role members,
                   \* and <<"ACLAdmin", account>>, the ACL admin of the provider
    book,          \* ids set in the PoolAddressesProvider
    settings,      \* pairs <<kind, subject>> set on chain
    listed,        \* pairs <<asset, treasury>>: the reserves of the pool
    priced,        \* assets with a source in the RASAOracle
    supplied,      \* assets some user has supplied
    job,           \* the steps the running process has left
    finished,      \* the procedures whose last run came to its end
    crashes

chain == <<initialized, power, book, settings, listed, priced, supplied>>
disk  == <<artifacts, migrations>>
vars  == <<market, config, chain, disk, job, finished, crashes>>

-----------------------------------------------------------------------------
(* The steps.                                                              *)

Deploy(c)       == [op |-> "deploy", on |-> c]
Initialize(c)   == [op |-> "initialize", on |-> c]
Transfer(c, a)  == [op |-> "transfer", on |-> c, to |-> a]
Grant(r, a)     == [op |-> "grant", on |-> r, to |-> a]
Revoke(r, a)    == [op |-> "revoke", on |-> r, to |-> a]
Renounce(r)     == [op |-> "renounce", on |-> r]
SetACLAdmin(a)  == [op |-> "setACLAdmin", to |-> a]
Register        == [op |-> "register"]
Book(k)         == [op |-> "book", on |-> k]
Save(c)         == [op |-> "save", on |-> c]
Require(c)      == [op |-> "require", on |-> c]
Put(k, x, auth) == [op |-> "put", kind |-> k, on |-> x, by |-> auth]
List(as, t)     == [op |-> "list", assets |-> as, treasury |-> t]
Configure(as)   == [op |-> "configure", assets |-> as]
SetSources      == [op |-> "setSources"]
SavePoolTokens  == Save("PoolTokens")
Check(x)        == [op |-> "check", on |-> x]
Read(x)         == [op |-> "read", on |-> x]
Record(id)      == [op |-> "record", on |-> id]
End(p)          == [op |-> "end", on |-> p]

Deploys(cs) == [i \in DOMAIN cs |-> Deploy(cs[i])]
When(cond, steps) == IF cond THEN steps ELSE <<>>

\* The elements of as that are in S, in their order.
Among(as, S) ==
    LET among[i \in 0 .. Len(as)] ==
            IF i = 0 THEN <<>> ELSE among[i - 1] \o When(as[i] \in S, <<as[i]>>)
    IN  among[Len(as)]

-----------------------------------------------------------------------------
(* The scripts, in the order hardhat-deploy runs them.                     *)

MarketsRegistry ==
    << Deploy("Registry"), Transfer("Registry", Deployer),
       Record("PoolAddressesProviderRegistry") >>

LogicLibraries ==
    Deploys(<<"SupplyLogic", "BorrowLogic", "LiquidationLogic", "EModeLogic",
              "BridgeLogic", "ConfiguratorLogic", "FlashLoanLogic", "PoolLogic">>)
    \o << Record("LogicLibraries") >>

\* A treasury named by the configuration is only saved; otherwise one is
\* deployed, and its implementation is initialised before its proxy.
TreasuryScript ==
    (IF market.treasury # None
     THEN << Save("TreasuryProxy"), Save("TreasuryController"), Save("TreasuryImpl") >>
     ELSE Deploys(<<"TreasuryProxy", "TreasuryController", "TreasuryImpl">>)
          \o << Initialize("TreasuryImpl"), Initialize("TreasuryProxy") >>)
    \o << Record("Treasury") >>

\* Testnet only, and without a record: its deploys are what makes it safe to
\* run again.
TokenSetup ==
    When(market.testnet, << Deploy("Faucet") >> \o Deploys(config))

SetupAddressesProvider ==
    << Check("addresses"), Deploy("Provider"),
       Put("marketId", "Provider", "Provider"), Register,
       Deploy("DataProvider"), Read("DataProvider"),
       Record("PoolAddressesProvider") >>

PriceAggregatorsSetup ==
    When(market.testnet,
         [i \in DOMAIN config |-> Deploy(Aggregator(config[i]))]
         \o << Record("MockPriceAggregators") >>)

(* Mutant: an implementation that is already deployed is taken for sealed. *)
PoolImplementationOnce ==
    << Deploy("PoolImpl") >>
    \o When("PoolImpl" \notin artifacts, << Initialize("PoolImpl") >>)

\* This script returns nothing, so it is never recorded.
PoolImplementation == << Deploy("PoolImpl"), Initialize("PoolImpl") >>

PoolConfiguratorScript ==
    << Deploy("ConfiguratorImpl"), Initialize("ConfiguratorImpl"), Deploy(Helper),
       Record("PoolConfigurator") >>

InitACL ==
    << SetACLAdmin(Deployer), Deploy("ACLManager"), Book("ACLManager"),
       Grant("POOL_ADMIN", Deployer), Grant("EMERGENCY_ADMIN", Deployer),
       Check("admins"), Record("ACLManager") >>

DeployOracles ==
    Deploys(<<"FallbackOracle", "Oracle">>) \o << Record("Oracles") >>

InitOracles == << Read("PriceOracle"), Record("InitOracles") >>

InitPool ==
    << Read("Pool"), Save("PoolProxy"), Read("PoolConfigurator"),
       Save("ConfiguratorProxy"),
       Put("premiumTotal", "Pool", "POOL_ADMIN"),
       Put("premiumToProtocol", "Pool", "POOL_ADMIN"),
       Record("PoolInitalization") >>

Incentives ==
    << Deploy("EmissionManager"), Deploy("IncentivesImpl"),
       Initialize("IncentivesImpl"), Read("IncentivesController"),
       Require("IncentivesProxy"),
       Put("rewardsController", "EmissionManager", "EmissionManager") >>
    \o When(market.testnet, << Deploy("PullRewardsStrategy") >>)
    \o << Transfer("EmissionManager", Deployer), Record("Incentives") >>

TokenImpls == << "RSToken", "DelegationAwareRSToken", "StableDebtToken",
                 "VariableDebtToken" >>

TokensImplementations ==
    FlattenSeq([i \in DOMAIN TokenImpls |->
                    << Deploy(TokenImpls[i]), Initialize(TokenImpls[i]) >>])
    \o << Record("TokenImplementations") >>

\* getTreasuryAddress: the configured treasury, otherwise the deployed proxy.
TreasuryAddress == IF market.treasury # None THEN market.treasury ELSE "TreasuryProxy"

InitReserves ==
    << Deploy("RateStrategies"), Require("IncentivesProxy"),
       [op |-> "read", on |-> "initReserves", treasury |-> TreasuryAddress],
       Read("configureReserves"), SavePoolTokens, Record("ReservesInit") >>

InitPeriphery ==
    When(market.testnet, << Deploy("MockFlashLoanReceiver") >>)
    \o << Record("PeripheryInit") >>

PeripheryPost ==
    << Require("PoolProxy"), Deploy("Gateway"), Deploy("WalletBalanceProvider"),
       Deploy("UiIncentiveDataProvider"), Deploy("UiPoolDataProvider") >>

-----------------------------------------------------------------------------
(* The tasks.                                                              *)

Puts(kind, as) == [i \in DOMAIN as |-> Put(kind, as[i], "POOL_ADMIN")]
Wanted(kind)   == Among(config, {a \in Assets : <<kind, a>> \in Expected})

\* The setup tasks look up every asset's address in the configuration, also
\* of the assets they then leave alone, and throw when one is missing.
SetupDebtCeiling == << Check("reserveAddress") >> \o Puts("ceiling", Wanted("ceiling"))

SetupIsolationMode == << Check("reserveAddress") >> \o Puts("isolation", Wanted("isolation"))

SetupEModes == << Put("category", "Pool", "POOL_ADMIN") >> \o Puts("eMode", Wanted("eMode"))

SetupLiquidationProtocolFee == << Check("reserveAddress") >> \o Puts("fee", Wanted("fee"))

TransferProtocolOwnership ==
    << Require("Gateway"), Require("EmissionManager"),
       Require("ParaSwapLiquiditySwapAdapter"), Require("ParaSwapRepayAdapter"),
       Check("marketOwner"), Read("EMERGENCY_ADMIN"), Read("POOL_ADMIN"),
       Read("ACLAdmin"), Read("Provider"), Read("Registry"), Read("Gateway"),
       Read("EmissionManager"), Read("DEFAULT_ADMIN"), End("transfer") >>

RenouncePoolAdmin == << Read("renounce-pool-admin") >>

AfterDeploy(transfer) ==
    << Read("review-stable-borrow") >>
    \o SetupDebtCeiling \o SetupIsolationMode \o SetupEModes
    \o SetupLiquidationProtocolFee
    \o When(market.testnet, << Put("unpaused", "Pool", "POOL_ADMIN") >>)
    \o When(transfer, TransferProtocolOwnership \o RenouncePoolAdmin)
    \o << End("deploy") >>

(* Mutant: price sources are set only when there are new reserves. *)
AddReservesSourcingNew ==
    << Require("IncentivesProxy"), Require("DataProvider"), Require("Oracle"),
       [op |-> "read", on |-> "initReserves", treasury |-> market.treasury],
       Read("configureReserves") >>
    \o When(\E a \in Range(config) : \A t \in {None, "TreasuryProxy", market.treasury} :
                                        <<a, t>> \notin listed, << SetSources >>)
    \o << SavePoolTokens, End("add-reserves") >>

\* The configured treasury is passed on as it is: no fallback to the proxy.
AddReserves ==
    << Require("IncentivesProxy"), Require("DataProvider"), Require("Oracle"),
       [op |-> "read", on |-> "initReserves", treasury |-> market.treasury],
       Read("configureReserves"), SetSources, SavePoolTokens,
       End("add-reserves") >>

\* A new implementation of the RSToken, which the lists to come use as well.
UpgradeRSTokens == << Deploy("NextRSToken"), Read("upgrade-rstokens"), End("upgrade") >>

\* The scripts of a deploy: hardhat-deploy skips the ones it has recorded.
Recorded(script) ==
    /\ script # <<>>
    /\ Last(script).op = "record"
    /\ Last(script).on \in migrations

(* Mutant: the oracle is put in the book after the reserves are listed. *)
ScriptsOracleLast ==
    << MarketsRegistry, LogicLibraries, TreasuryScript, TokenSetup,
       SetupAddressesProvider, PriceAggregatorsSetup, PoolImplementation,
       PoolConfiguratorScript, InitACL, DeployOracles, InitPool, Incentives,
       TokensImplementations, InitReserves, InitOracles, InitPeriphery, PeripheryPost >>

Scripts == << MarketsRegistry, LogicLibraries, TreasuryScript, TokenSetup,
              SetupAddressesProvider, PriceAggregatorsSetup, PoolImplementation,
              PoolConfiguratorScript, InitACL, DeployOracles, InitOracles, InitPool,
              Incentives, TokensImplementations, InitReserves, InitPeriphery,
              PeripheryPost >>

Unrecorded(scripts) ==
    [i \in DOMAIN scripts |-> When(~Recorded(scripts[i]), scripts[i])]

DeployRun(transfer) == FlattenSeq(Unrecorded(Scripts)) \o AfterDeploy(transfer)

-----------------------------------------------------------------------------
(* Reads of the chain: the steps that follow from what they find.          *)

Holds(p, a) == <<p, a>> \in power
IsListed(a) == \E t \in {None, "TreasuryProxy", market.treasury} : <<a, t>> \in listed

\* helpers/utilities/utils chunk
Chunks(s, n) ==
    [k \in 1 .. (Len(s) + n - 1) \div n |->
        SubSeq(s, (k - 1) * n + 1, IF k * n <= Len(s) THEN k * n ELSE Len(s))]

\* getReserveAddresses: the configured tokens, on a testnet the deployed ones.
Known(a) == IF market.testnet THEN a \in artifacts ELSE market.addresses
KnownAssets == Among(config, {a \in Assets : Known(a)})

\* getChainlinkOracles and getPairsTokenAggregator: a test market prices its
\* assets with the mocks it deployed, and throws when one is missing.
SourcesKnown == market.testnet => \A a \in Range(KnownAssets) : Aggregator(a) \in artifacts

\* Set an id of the provider only when it is not set yet.
Attach(k) == When(k \notin book, << Book(k) >>)

\* initReservesByHelper lists the reserves the pool does not know, three in a
\* transaction.
InitReservesByHelper(treasury) ==
    LET new == Chunks(Among(KnownAssets, {a \in Assets : ~IsListed(a)}), InitChunks)
    IN  [i \in DOMAIN new |-> List(new[i], treasury)]

(* Mutant: the helper contract is not made a risk admin. *)
ConfigureReservesUnassisted ==
    LET new == Among(KnownAssets, {a \in Assets : <<"collateral", a>> \notin settings})
    IN  When(new # <<>>, << Configure(new), Revoke("RISK_ADMIN", Helper) >>)

\* configureReservesByHelper makes the helper contract a risk admin while it
\* configures the reserves that are not enabled as collateral yet.
ConfigureReservesByHelper ==
    LET new == Among(KnownAssets, {a \in Assets : <<"collateral", a>> \notin settings})
    IN  When(new # <<>>, << Grant("RISK_ADMIN", Helper), Configure(new),
                            Revoke("RISK_ADMIN", Helper) >>)

ReviewStableBorrow ==
    Puts("stable", Among(config, {a \in Assets :
        IsListed(a) /\ <<"stable", a>> \in Expected \ settings}))

\* One transaction for each reserve of the pool, whatever it runs already.
UpgradeEachRSToken == Puts("upgraded", Among(config, {a \in Assets : IsListed(a)}))

(* Mutant: the new admin is made after the old one is gone. *)
HandOverRevokingFirst(r) ==
    When(Holds(r, Deployer), << Revoke(r, Deployer), Grant(r, Multisig) >>)

(* Mutant: the old admin stays. *)
HandOverSharing(r) ==
    When(Holds(r, Deployer), << Grant(r, Multisig) >>)

\* A block of the transfer task: an account that has the role gives it away.
HandOver(r) ==
    When(Holds(r, Deployer), << Grant(r, Multisig), Revoke(r, Deployer) >>)

Following(step) ==
    CASE step.on \in {"DataProvider", "PriceOracle", "Pool", "PoolConfigurator"}
            -> Attach(step.on)
      [] step.on = "IncentivesController"
            -> When("Incentives" \notin book,
                    << Book("Incentives"), Save("IncentivesProxy") >>)
      [] step.on = "initReserves"         -> InitReservesByHelper(step.treasury)
      [] step.on = "configureReserves"    -> ConfigureReservesByHelper
      [] step.on = "review-stable-borrow" -> ReviewStableBorrow
      [] step.on = "upgrade-rstokens"     -> UpgradeEachRSToken
      [] step.on \in Roles                -> HandOver(step.on)
      [] step.on = "ACLAdmin"             -> When(Holds("ACLAdmin", Deployer),
                                                  << SetACLAdmin(Multisig) >>)
      [] step.on \in Ownable              -> When(Holds(step.on, Deployer),
                                                  << Transfer(step.on, Multisig) >>)
      [] step.on = "renounce-pool-admin"  ->
            When(Holds("POOL_ADMIN", Deployer) /\ Holds("POOL_ADMIN", Multisig),
                 << Renounce("POOL_ADMIN") >>)

-----------------------------------------------------------------------------
(* Taking a step.                                                          *)

Doing(op) == job # <<>> /\ Head(job).op = op
Step      == Head(job)
Advance   == job' = Tail(job) /\ UNCHANGED <<market, config, finished, crashes>>

\* Who may sign: the owner of a contract or a member of a role. The helpers
\* that open the pool to the setup contract sign as the provider's ACL admin.
Authorised(p) == Holds(p, Deployer)
GrantAllowed(step) ==
    /\ Authorised("DEFAULT_ADMIN")
    /\ step.to = Helper => Authorised("ACLAdmin")

\* The scripts' own checks, which throw or exit.
Passes(check) ==
    CASE check = "addresses"      -> Range(KnownAssets) = Range(config)
      [] check = "reserveAddress" -> market.addresses
      [] check = "admins"         -> \A r \in Roles \ {"RISK_ADMIN"} : Authorised(r)
      [] check = "marketOwner"    -> Authorised("Provider")

\* What a step needs, or the transaction reverts and the script throws.
Enabled(step) ==
    CASE step.op = "deploy"     -> /\ step.on = "ACLManager" =>
                                        \E a \in Accounts : Holds("ACLAdmin", a)
                                   /\ step.on = "Oracle" => SourcesKnown
      [] step.op = "initialize" -> step.on \notin initialized
      [] step.op = "transfer"   -> Authorised(step.on)
      [] step.op \in {"setACLAdmin", "book"} -> Authorised("Provider")
      [] step.op \in {"grant", "revoke"}     -> GrantAllowed(step)
      [] step.op = "register"   -> /\ Authorised("Registry")
                                   /\ <<"registered", "Provider">> \notin settings
      [] step.op = "require"    -> step.on \in artifacts
      [] step.op = "put"        -> /\ Authorised(step.by)
                                   /\ step.kind = "ceiling" =>
                                        \/ <<"ceiling", step.on>> \in settings
                                        \/ step.on \notin supplied
                                   /\ step.kind = "upgraded" =>
                                        <<"upgraded", step.on>> \notin settings
      [] step.op = "list"       -> /\ Authorised("POOL_ADMIN")
                                   /\ \A i \in DOMAIN step.assets : ~IsListed(step.assets[i])
      [] step.op = "configure"  -> Holds("RISK_ADMIN", Helper)
      [] step.op = "setSources" -> Authorised("POOL_ADMIN") /\ SourcesKnown
      [] step.op = "check"      -> Passes(step.on)
      [] OTHER -> TRUE

Perform(op) == Doing(op) /\ Enabled(Step) /\ Advance

\* hardhat-deploy reuses a contract whose artifact is saved. A constructor
\* makes the deployer the owner, gives the ACL admin the default admin role,
\* or stores the sources of the assets.
DeployContract ==
    /\ Perform("deploy")
    /\ artifacts' = artifacts \cup {Step.on}
    /\ IF Step.on \in artifacts THEN UNCHANGED <<power, priced>>
       ELSE /\ power' = power
                    \cup (IF Step.on \in Ownable THEN {<<Step.on, Deployer>>} ELSE {})
                    \cup (IF Step.on = "ACLManager"
                          THEN {<<"DEFAULT_ADMIN", a>> :
                                    a \in {b \in Accounts : Holds("ACLAdmin", b)}}
                          ELSE {})
            /\ priced' = IF Step.on = "Oracle" THEN Range(KnownAssets) ELSE priced
    /\ UNCHANGED <<migrations, initialized, book, settings, listed, supplied>>

InitializeContract ==
    /\ Perform("initialize")
    /\ initialized' = initialized \cup {Step.on}
    /\ UNCHANGED <<disk, power, book, settings, listed, priced, supplied>>

\* transferOwnership, setACLAdmin, grantRole, revokeRole and renounceRole.
ChangePower ==
    /\ \/ /\ Perform("transfer")
          /\ power' = (power \ {<<Step.on, Deployer>>}) \cup {<<Step.on, Step.to>>}
       \/ /\ Perform("setACLAdmin")
          /\ power' = {pa \in power : pa[1] # "ACLAdmin"} \cup {<<"ACLAdmin", Step.to>>}
       \/ Perform("grant") /\ power' = power \cup {<<Step.on, Step.to>>}
       \/ Perform("revoke") /\ power' = power \ {<<Step.on, Step.to>>}
       \/ Perform("renounce") /\ power' = power \ {<<Step.on, Deployer>>}
    /\ UNCHANGED <<disk, initialized, book, settings, listed, priced, supplied>>

\* A proxy is created and initialised in the transaction that books it.
SetInBook ==
    /\ Perform("book")
    /\ book' = book \cup {Step.on}
    /\ UNCHANGED <<disk, initialized, power, settings, listed, priced, supplied>>

ChangeSettings ==
    /\ \/ Perform("register") /\ settings' = settings \cup {<<"registered", "Provider">>}
       \/ Perform("put") /\ settings' = settings \cup {<<Step.kind, Step.on>>}
       \/ /\ Perform("configure")
          /\ settings' = settings
                \cup ({"collateral"} \X Range(Step.assets))
                \cup {ka \in Expected : ka[1] = "stable" /\ ka[2] \in Range(Step.assets)}
    /\ UNCHANGED <<disk, initialized, power, book, listed, priced, supplied>>

(* Mutant: new reserves run the first implementation. *)
ListReservesOfFirstRevision ==
    /\ Perform("list")
    /\ listed' = listed \cup (Range(Step.assets) \X {Step.treasury})
    /\ UNCHANGED <<disk, initialized, power, book, settings, priced, supplied>>

\* initReserves: the tokens of each reserve are proxies of the saved
\* implementations.
ListReserves ==
    /\ Perform("list")
    /\ listed' = listed \cup (Range(Step.assets) \X {Step.treasury})
    /\ settings' = IF "NextRSToken" \in artifacts
                   THEN settings \cup ({"upgraded"} \X Range(Step.assets))
                   ELSE settings
    /\ UNCHANGED <<disk, initialized, power, book, priced, supplied>>

SetAssetSources ==
    /\ Perform("setSources")
    /\ priced' = priced \cup Range(KnownAssets)
    /\ UNCHANGED <<disk, initialized, power, book, settings, listed, supplied>>

WriteToDisk ==
    /\ \/ /\ Perform("save")
          /\ artifacts' = artifacts \cup {Step.on} /\ UNCHANGED migrations
       \/ /\ Perform("record")
          /\ migrations' = migrations \cup {Step.on} /\ UNCHANGED artifacts
    /\ UNCHANGED chain

PassCheck ==
    /\ Perform("check") \/ Perform("require")
    /\ UNCHANGED <<chain, disk>>

ReadChain ==
    /\ Doing("read")
    /\ job' = Following(Step) \o Tail(job)
    /\ UNCHANGED <<market, config, chain, disk, finished, crashes>>

Finish ==
    /\ Doing("end")
    /\ finished' = finished \cup {Step.on}
    /\ job' = Tail(job)
    /\ UNCHANGED <<market, config, chain, disk, crashes>>

\* A reverted transaction, a failed check or a missing artifact: the script
\* throws and the run ends.
Abort ==
    /\ job # <<>> /\ ~Enabled(Step)
    /\ job' = <<>>
    /\ UNCHANGED <<market, config, chain, disk, finished, crashes>>

\* The process dies between two steps.
Crash ==
    /\ job # <<>> /\ crashes < MaxCrashes
    /\ crashes' = crashes + 1
    /\ job' = <<>>
    /\ UNCHANGED <<market, config, chain, disk, finished>>

-----------------------------------------------------------------------------
(* The operator and the users.                                             *)

\* npm run deploy passes --reset: the deployments directory is emptied and
\* every contract is new.
DeployAfresh(transfer) ==
    /\ job = <<>> /\ "deploy" \notin finished
    /\ artifacts' = {} /\ migrations' = {}
    /\ initialized' = {} /\ power' = {} /\ book' = {} /\ settings' = {}
    /\ listed' = {} /\ priced' = {} /\ supplied' = {} /\ finished' = {}
    /\ job' = FlattenSeq(Scripts) \o AfterDeploy(transfer)
    /\ UNCHANGED <<market, config, crashes>>

\* hardhat deploy without --reset.
DeployAgain(transfer) ==
    /\ job = <<>>
    /\ job' = DeployRun(transfer)
    /\ UNCHANGED <<market, config, chain, disk, finished, crashes>>

RunTask(task) ==
    /\ job = <<>> /\ "ReservesInit" \in migrations
    /\ job' = task
    /\ UNCHANGED <<market, config, chain, disk, finished, crashes>>

RunAddReserves == RunTask(AddReserves)
RunTransfer    == RunTask(TransferProtocolOwnership \o RenouncePoolAdmin)
RunUpgrade     == RunTask(UpgradeRSTokens)

\* The operator edits the configuration, and saves artifacts of contracts
\* deployed elsewhere.
AddToConfig(a) ==
    /\ job = <<>> /\ "deploy" \in finished /\ a \notin Range(config)
    /\ config' = Append(config, a)
    /\ UNCHANGED <<market, chain, disk, job, finished, crashes>>

SaveForeign ==
    /\ job = <<>> /\ ~(Foreign \subseteq artifacts)
    /\ artifacts' = artifacts \cup Foreign
    /\ UNCHANGED <<market, config, chain, migrations, job, finished, crashes>>

\* Reserves are open from the transaction that lists them: a user may supply
\* one that is to get a debt ceiling, while the process is still running.
Supply(a) ==
    /\ IsListed(a) /\ a \notin supplied /\ <<"ceiling", a>> \in Expected
    /\ supplied' = supplied \cup {a}
    /\ UNCHANGED <<market, config, initialized, power, book, settings, listed,
                   priced, disk, job, finished, crashes>>

-----------------------------------------------------------------------------
Init ==
    /\ market \in Markets /\ config = FirstAssets
    /\ artifacts = {} /\ migrations = {}
    /\ initialized = {} /\ power = {} /\ book = {} /\ settings = {}
    /\ listed = {} /\ priced = {} /\ supplied = {}
    /\ job = <<>> /\ finished = {} /\ crashes = 0

Proceed ==
    \/ DeployContract
    \/ InitializeContract
    \/ ChangePower
    \/ SetInBook
    \/ ChangeSettings
    \/ ListReserves
    \/ SetAssetSources
    \/ WriteToDisk
    \/ PassCheck
    \/ ReadChain
    \/ Finish
    \/ Abort

Next ==
    \/ Proceed
    \/ Crash
    \/ \E transfer \in BOOLEAN : DeployAfresh(transfer) \/ DeployAgain(transfer)
    \/ RunAddReserves
    \/ RunTransfer
    \/ RunUpgrade
    \/ \E a \in LaterAssets : AddToConfig(a)
    \/ SaveForeign
    \/ \E a \in Assets : Supply(a)

\* A process that does not die goes on to its next step, and the operator
\* deploys again, with the repository's own command, until a deployment has
\* come to its end.
Spec ==
    /\ Init /\ [][Next]_vars
    /\ WF_vars(Proceed)
    /\ SF_vars(DeployAfresh(FALSE))
    /\ SF_vars(RunAddReserves)

-----------------------------------------------------------------------------
(* Properties.                                                             *)

\* No proxy is put before an implementation of the deployment scripts that a
\* stranger could still initialise, wherever an earlier run of them died
\* (01_pool_implementation.ts, 02_pool_configurator.ts, 07, 08).  Not said of the
\* RSToken that upgrade-rstokens deploys (lines 47-75): nobody initialises it.
SealedBeforeUse ==
    /\ "Pool" \in book => "PoolImpl" \in initialized
    /\ "PoolConfigurator" \in book => "ConfiguratorImpl" \in initialized
    /\ "Incentives" \in book => "IncentivesImpl" \in initialized
    /\ listed # {} => Range(TokenImpls) \subseteq initialized

\* The reserves of a deployment are open to users only once the oracle has
\* their sources and the provider has the oracle (scripts 04, 05 and 09).
OpenIsPriced ==
    \A a \in Range(FirstAssets) :
        IsListed(a) => a \in priced /\ "PriceOracle" \in book

\* No transaction leaves the market without an account that can grant roles,
\* or without one that can configure it: a new admin is made before the old
\* one goes (03_init_acl.ts, transfer-protocol-ownership.ts).
SomeoneHolds(r) == \E a \in Accounts : Holds(r, a)
AdminsRemain ==
    [][\A r \in {"DEFAULT_ADMIN", "POOL_ADMIN"} :
        SomeoneHolds(r) => SomeoneHolds(r)' \/ artifacts' = {}]_vars

\* When transfer-protocol-ownership has come to its end, in whatever run of
\* it, the deployer's key has no power left over the market.
HandoverIsWhole == "transfer" \in finished => ~ \E p \in power : p[2] = Deployer

\* When upgrade-rstokens has come to its end, every reserve runs the new
\* implementation, those that add-reserves lists later too.
UpgradeIsWhole ==
    "upgrade" \in finished =>
        \A a \in Assets : IsListed(a) => <<"upgraded", a>> \in settings

\* A market whose tokens' addresses are configured comes to be deployed,
\* crashes or not, unless a user supplies an asset before its ceiling is set.
EventuallyDeployed ==
    market.addresses => <>("deploy" \in finished \/ supplied # {})

\* add-reserves opens a reserve before it sets its price source; if it dies in
\* between, running it again sets the source on a live network, unless the
\* market is deployed afresh or the deployer has handed over by then.
EnabledIsPriced ==
    \A a \in Assets :
        (<<"collateral", a>> \in settings /\ ~market.testnet) ~>
            \/ a \in priced \/ artifacts = {}
            \/ Holds("POOL_ADMIN", Multisig)

=============================================================================
