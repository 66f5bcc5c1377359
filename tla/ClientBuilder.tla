---------------------------- MODULE ClientBuilder ----------------------------
(***************************************************************************)
(* BuildAll (src/chainio/clients/builder.go) with the binding constructors *)
(* it calls (src/chainio/utils/bindings.go): one run of the builder, from  *)
(* config validation to the returned Clients.                              *)
(*                                                                         *)
(* Every eth_call that reads a contract address is one step and may fail.  *)
(* An address is abstracted to the contract deployed there, or Zero.  A    *)
(* call to an address without code fails (bind.ErrNoCode); creating a      *)
(* binding (NewContractX) issues no call and cannot fail, whatever the     *)
(* address.  A failed call yields the zero address next to its error.      *)
(*                                                                         *)
(* logger.Fatal / Fatalf exit the process with the production logger and  *)
(* return with the no-op logger (logging.NewNoopLogger), after which the   *)
(* code goes on.                                                           *)
(***************************************************************************)
EXTENDS Naturals

CONSTANTS
  RpcMayFail,  \* whether an eth_call may fail in transport
  Loggers      \* the loggers BuildAll may be given: "production", "noop"

\* The contracts BuildAll binds, each named by the address it is deployed at.
Contracts == {"RegistryCoordinator", "OperatorStateRetriever", "ServiceManager",
              "StakeRegistry", "DelegationManager", "AvsDirectory", "Slasher",
              "StrategyManager"}
Zero == "Zero"

\* Which contract answers each address getter, e.g. StakeRegistry.delegation().
Owner == [ServiceManager    |-> "RegistryCoordinator",
          StakeRegistry     |-> "RegistryCoordinator",
          DelegationManager |-> "StakeRegistry",
          AvsDirectory      |-> "ServiceManager",
          Slasher           |-> "DelegationManager",
          StrategyManager   |-> "DelegationManager",
          BlsApkRegistry    |-> "RegistryCoordinator"]

ConfigFields == {"EthHttpUrl", "RegistryCoordinatorAddr",
                 "OperatorStateRetrieverAddr", "AvsName"}

VARIABLES
  logger,   \* the logger passed to BuildAll
  config,   \* BuildAllConfig: each field "set" (correct) or "" (missing)
  pc,       \* the next step of BuildAll
  phase,    \* which NewAVSRegistryContractBindings runs: in "el" or "avs" clients
  addr,     \* the local address variables, Zero until assigned
  process,  \* "running" or "exited" (logger.Fatal)
  result    \* what BuildAll returned

vars == <<logger, config, pc, phase, addr, process, result>>
inputs == <<logger, config>>

\* logger.Fatal terminates the process.
FatalExits == logger = "production"

Fetched == {"ServiceManager", "StakeRegistry", "DelegationManager",
            "AvsDirectory", "Slasher", "StrategyManager"}

NoResult == [status |-> "none"]
Err(e)   == [status |-> "err", err |-> e]

\* gethcommon.HexToAddress of a config field: "" parses to the zero address.
HexToAddress(field, contract) == IF config[field] = "" THEN Zero ELSE contract

\* The (value, err) pairs of the getter g called on a binding at address a.
Outcomes(a, g) ==
  (IF a = Owner[g] THEN {[err |-> FALSE, val |-> g]} ELSE {})
  \cup (IF RpcMayFail \/ a # Owner[g] THEN {[err |-> TRUE, val |-> Zero]} ELSE {})

\* The step ends BuildAll with an error.
Fail(e) == /\ result' = Err(e) /\ pc' = "done" /\ UNCHANGED <<addr, phase>>

\* The addresses the returned Clients' bindings are bound to.
Bound ==
  [c \in Contracts |->
     CASE c = "RegistryCoordinator"    -> HexToAddress("RegistryCoordinatorAddr", c)
       [] c = "OperatorStateRetriever" -> HexToAddress("OperatorStateRetrieverAddr", c)
       [] OTHER                        -> addr[c]]

Init ==
  /\ logger \in Loggers
  /\ config \in [ConfigFields -> {"set", ""}]
  /\ pc = "validate"
  /\ phase = "el"
  /\ addr = [c \in Fetched |-> Zero]
  /\ process = "running"
  /\ result = NoResult

-----------------------------------------------------------------------------
(* The steps of BuildAll, in program order.                                *)

\* mutation: the OperatorStateRetrieverAddr check is missing
validateNoRetrieverCheck ==
  /\ pc = "validate"
  /\ IF FatalExits /\ \E f \in ConfigFields \ {"OperatorStateRetrieverAddr"} :
                        config[f] = ""
     THEN process' = "exited" /\ UNCHANGED pc
     ELSE pc' = "dial" /\ UNCHANGED process
  /\ UNCHANGED <<inputs, phase, addr, result>>

\* config.validate: logger.Fatalf for every empty field.
validate ==
  /\ pc = "validate"
  /\ IF FatalExits /\ \E f \in ConfigFields : config[f] = ""
     THEN process' = "exited" /\ UNCHANGED pc
     ELSE pc' = "dial" /\ UNCHANGED process
  /\ UNCHANGED <<inputs, phase, addr, result>>

\* eth.NewClient(config.EthHttpUrl) fails on an empty URL; the tx manager
\* is built without a call.
NewClient ==
  /\ pc = "dial"
  /\ IF config.EthHttpUrl = ""
     THEN Fail("Failed to create Eth Http client")
     ELSE pc' = "serviceManager" /\ UNCHANGED <<result, addr, phase>>
  /\ UNCHANGED <<inputs, process>>

\* NewAVSRegistryContractBindings: registryCoordinator.ServiceManager().
FetchServiceManager ==
  /\ pc = "serviceManager"
  /\ \E r \in Outcomes(HexToAddress("RegistryCoordinatorAddr", "RegistryCoordinator"),
                       "ServiceManager") :
        IF r.err THEN Fail("Failed to fetch ServiceManager address")
        ELSE /\ addr' = [addr EXCEPT !.ServiceManager = r.val]
             /\ pc' = "stakeRegistry"
             /\ UNCHANGED <<result, phase>>
  /\ UNCHANGED <<inputs, process>>

\* NewAVSRegistryContractBindings: registryCoordinator.StakeRegistry(); the
\* OperatorStateRetriever binding is made from the config address, unchecked.
FetchStakeRegistry ==
  /\ pc = "stakeRegistry"
  /\ \E r \in Outcomes(HexToAddress("RegistryCoordinatorAddr", "RegistryCoordinator"),
                       "StakeRegistry") :
        IF r.err THEN Fail("Failed to fetch StakeRegistry address")
        ELSE /\ addr' = [addr EXCEPT !.StakeRegistry = r.val]
             /\ pc' = IF phase = "el" THEN "delegation" ELSE "writer"
             /\ UNCHANGED <<result, phase>>
  /\ UNCHANGED <<inputs, process>>

\* buildElClients: StakeRegistry.Delegation(), then
\* ServiceManager.AvsDirectory(); a failure of either is logger.Fatal and the
\* zero address it returned is used from then on.
FetchElAddress(g, next) ==
  /\ \E r \in Outcomes(addr[Owner[g]], g) :
        IF r.err /\ FatalExits
        THEN process' = "exited" /\ UNCHANGED <<addr, pc>>
        ELSE /\ addr' = [addr EXCEPT ![g] = r.val]
             /\ pc' = next
             /\ UNCHANGED process
  /\ UNCHANGED <<inputs, phase, result>>

FetchDelegationManager == pc = "delegation" /\ FetchElAddress("DelegationManager", "avsDirectory")

FetchAvsDirectory == pc = "avsDirectory" /\ FetchElAddress("AvsDirectory", "slasher")

\* NewEigenlayerContractBindings: delegationManager.Slasher().
FetchSlasher ==
  /\ pc = "slasher"
  /\ \E r \in Outcomes(addr.DelegationManager, "Slasher") :
        IF r.err THEN Fail("Failed to fetch Slasher address")
        ELSE /\ addr' = [addr EXCEPT !.Slasher = r.val]
             /\ pc' = "strategyManager"
             /\ UNCHANGED <<result, phase>>
  /\ UNCHANGED <<inputs, process>>

\* NewEigenlayerContractBindings: delegationManager.StrategyManager(); the
\* AVSDirectory binding is made from avsDirectoryAddr, unchecked.  Then the
\* EL reader and writer are built (no call; the err test after them sees the
\* nil err of the bindings) and buildAvsClients starts.
FetchStrategyManager ==
  /\ pc = "strategyManager"
  /\ \E r \in Outcomes(addr.DelegationManager, "StrategyManager") :
        IF r.err THEN Fail("Failed to fetch StrategyManager address")
        ELSE /\ addr' = [addr EXCEPT !.StrategyManager = r.val]
             /\ pc' = "serviceManager"
             /\ phase' = "avs"
             /\ UNCHANGED result
  /\ UNCHANGED <<inputs, process>>

\* NewAvsRegistryChainWriter reads registryCoordinator.BlsApkRegistry() and
\* may fail; otherwise BuildAll returns the Clients.
NewAvsRegistryChainWriter ==
  /\ pc = "writer"
  /\ \E r \in Outcomes(HexToAddress("RegistryCoordinatorAddr", "RegistryCoordinator"),
                       "BlsApkRegistry") :
        IF r.err THEN Fail("Failed to create AVSRegistryChainWriter")
        ELSE /\ result' = [status |-> "ok", val |-> Bound]
             /\ pc' = "done"
             /\ UNCHANGED <<addr, phase>>
  /\ UNCHANGED <<inputs, process>>

\* buildElClients: NewAVSRegistryContractBindings, the Delegation() and
\* AvsDirectory() reads, then NewEigenlayerContractBindings; the EL reader
\* and writer are built from those bindings without a call.
buildElClients ==
  /\ phase = "el"
  /\ \/ FetchServiceManager
     \/ FetchStakeRegistry
     \/ FetchDelegationManager
     \/ FetchAvsDirectory
     \/ FetchSlasher
     \/ FetchStrategyManager

\* buildAvsClients: NewAVSRegistryContractBindings a second time, the
\* reader (no call), then NewAvsRegistryChainWriter.
buildAvsClients ==
  /\ phase = "avs"
  /\ \/ FetchServiceManager
     \/ FetchStakeRegistry
     \/ NewAvsRegistryChainWriter

Next ==
  /\ process = "running"
  /\ \/ validate
     \/ NewClient
     \/ buildElClients
     \/ buildAvsClients

Spec == Init /\ [][Next]_vars

-----------------------------------------------------------------------------
(* Properties.                                                             *)

(***************************************************************************)
(* Clients that BuildAll returns without error are bound to the deployed   *)
(* contracts: every binding of the EL and AVS readers and writers is at    *)
(* the address of the contract it is meant for, never at the zero address  *)
(* left behind by a missing config field or by a failed address fetch     *)
(* that logger.Fatal (validate, buildElClients) was relied on to stop.     *)
(***************************************************************************)
ClientsBoundToContracts ==
  result.status = "ok" => \A c \in Contracts : result.val[c] = c

\* The same, for a process whose logger.Fatal does terminate it.
ProductionClientsBound == logger = "production" => ClientsBoundToContracts

=============================================================================
