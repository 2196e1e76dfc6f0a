--------------------------------- MODULE Cli ---------------------------------
(***************************************************************************)
(* The entry point of greentic-dw-cli (wizard.rs, run): a command line is  *)
(* the wizard's or the worker's, and neither sees the other's state.       *)
(* `serve` is OperalaBridge.                                               *)
(***************************************************************************)
EXTENDS Wizard, WorkerPacks

VARIABLE cli                \* the subcommand

cliVars == <<cli, vars, workerVars>>

CliInit ==
  /\ cli \in {"wizard", "worker"}
  /\ Init /\ WorkerInit
  /\ cli = "worker" => args = CHOOSE a \in CommandLines : TRUE

CliNext ==
  /\ \/ cli = "wizard" /\ Next /\ UNCHANGED workerVars
     \/ cli = "worker" /\ WorkerNext /\ UNCHANGED vars
  /\ UNCHANGED cli

CliSpec == CliInit /\ [][CliNext]_cliVars
=============================================================================
