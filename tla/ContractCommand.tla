--------------------------- MODULE ContractCommand ---------------------------
(***************************************************************************)
(* compact-js-command: commands that deploy, call and maintain a contract  *)
(* from a configuration file in TypeScript.  Each is a process that        *)
(* compiles the file if the module beside it is not newer, imports the     *)
(* module, runs an operation of the executable and writes what it yields   *)
(* to files.  Processes share the module and the files, take no locks and  *)
(* may be interrupted, and the configuration file may be edited meanwhile. *)
(***************************************************************************)
EXTENDS ContractExecutable

CONSTANTS
  Command,        \* the processes
  MaxEdits,       \* bound on edits of the configuration file
  Json, Env,      \* providers: what the configuration and the environment say
  CommandLine,    \* providers: what a command line may say
  InputState,     \* what an input file may hold of the contract
  ArgumentText,   \* what a command line may pass to the circuit
  Declaration,    \* the parameters, from the declaration file
  ArgumentParser(_, _, _),  \* the parser that is made from it: that of Arguments
  Asset           \* the verifier key files

ASSUME CommandAssumption == MaxEdits \in Nat

VARIABLES
  source,    \* version of the configuration file
  module,    \* version the module beside it was compiled from
  newer,     \* the module has a later modification time
  pc, op,    \* where each command is, and which one it is
  began,     \* the version when it looked at the files
  text,      \* the version it read
  loaded,    \* the version it runs
  private,   \* the private state it has yielded
  written,   \* how many of its files it has opened
  output,    \* the files, by what they hold
  raced,     \* the module is of a version that was edited before it was written
  misled,    \* the commands that looked at such a module, or were going to
  solo       \* no other command has written since it opened its first file

moduleVars == <<source, module, newer, raced, misled>>
commandVars == <<moduleVars, pc, op, began, text, loaded, private, written, output, solo>>

NoModule == 0
Partial == -1
ContractClass == "Contract"
Operation == {"deploy", "circuit", "maintainCircuit", "maintainContract", "maintain"}

(* The files an operation writes, in the order of the handlers. *)
Outputs(o) ==
  CASE o = "deploy" -> <<"intent", "privateState", "zswap">>
    [] o = "circuit" -> <<"result", "intent", "privateState", "zswap">>
    [] o \in {"maintainCircuit", "maintainContract"} -> <<"intent">>
    [] OTHER -> <<>>

OutputFile == {"result", "intent", "privateState", "zswap"}

CommandInit ==
  /\ source = 1 /\ module = NoModule /\ newer = FALSE
  /\ pc = [c \in Command |-> "none"]
  /\ op \in [Command -> Operation]
  /\ began = [c \in Command |-> 0] /\ text = began /\ loaded = began
  /\ private = began /\ written = began
  /\ output = [f \in OutputFile |-> [by |-> "nobody", whole |-> TRUE, state |-> 0]]
  /\ raced = FALSE /\ misled = {}
  /\ solo = [c \in Command |-> TRUE]

Advance(c, from, to) ==
  /\ pc[c] = from
  /\ pc' = [pc EXCEPT ![c] = to]

-----------------------------------------------------------------------------
(* ConfigCompiler *)

Edit ==
  /\ source <= MaxEdits
  /\ source' = source + 1
  /\ newer' = FALSE
  /\ raced' = FALSE
  /\ UNCHANGED <<module, misled, pc, op, began, text, loaded, private, written, output, solo>>

(* Mutant: a module that is there is taken. *)
ModuleThere == module # NoModule

(* getFilePathProperties: equal times call for a compilation. *)
ModuleIsNewer == module # NoModule /\ newer

Stat(c) ==
  /\ Advance(c, "none", IF ModuleIsNewer THEN "import" ELSE "read")
  /\ began' = [began EXCEPT ![c] = source]
  /\ misled' = misled \cup (IF raced THEN {c} ELSE {})
  /\ UNCHANGED <<source, module, newer, raced, op, text, loaded, private, written, output, solo>>

(* transpileTypeScript: the source is read and compiled, or there is an error
   in it, and the module is written. *)
ReadSource(c) ==
  /\ Advance(c, "read", "open")
  /\ text' = [text EXCEPT ![c] = source]
  /\ UNCHANGED <<moduleVars, op, began, loaded, private, written, output, solo>>

OpenModule(c) ==
  /\ Advance(c, "open", "write")
  /\ module' = Partial /\ newer' = TRUE
  /\ UNCHANGED <<source, raced, misled, op, began, text, loaded, private, written, output, solo>>

WriteModule(c) ==
  /\ Advance(c, "write", "import")
  /\ module' = text[c] /\ newer' = TRUE
  /\ raced' = (text[c] # source)
  /\ misled' = IF raced' THEN misled \cup {d \in Command : began[d] # 0 /\ loaded[d] = 0}
               ELSE misled
  /\ UNCHANGED <<source, op, began, text, loaded, private, written, output, solo>>

(* A module that was written in part does not load. *)
Import(c) ==
  /\ Advance(c, "import", IF module = Partial THEN "failed" ELSE "execute")
  /\ loaded' = IF module = Partial THEN loaded ELSE [loaded EXCEPT ![c] = module]
  /\ UNCHANGED <<moduleVars, op, began, text, private, written, output, solo>>

-----------------------------------------------------------------------------
(* The options *)

AsConfigProvider(coinPublic, signing, network) ==
  [coinPublic |-> coinPublic, signing |-> signing, network |-> network]

(* Any string will do for a coin public key. *)
Accepts(cli) == cli["signing"] = None \/ SigningKey(cli["signing"])

AcceptsKey(newSigningKey) == SigningKey(newSigningKey)

-----------------------------------------------------------------------------
(* The handlers *)

Contract == WithCompiledFileAssets(WithVacantWitnesses(MakeCompiled(ContractClass)), "assets")

(* What the private state file holds: of a file that was written in part there
   is none. *)
StoredState == IF output["privateState"].whole THEN {output["privateState"].state} ELSE {}

(* The results of an operation on what the command line and the files hold. *)
DeployResults(keys) == Initialize(Contract, keys, Asset, ImpureCircuit, 0)

CircuitResults(keys) ==
  UNION {Circuit(Contract, keys, c, [privateState |-> state, zswap |-> zswap]) :
           c \in {d \in ImpureCircuit : \E args \in ArgumentText :
                    ArgumentParser(Declaration, d, args).ok},
           state \in StoredState, zswap \in BOOLEAN}

MaintainContractResults(keys) ==
  {ReplaceContractMaintenanceAuthority(newKey, keys, state) :
     newKey \in {key \in SigningKeys : AcceptsKey(key)}, state \in InputState}

(* With a verifier key file it is an insertion, without one a removal. *)
MaintainCircuitResults(keys) ==
  UNION {{RemoveContractOperation(c, keys, state),
          AddOrReplaceContractOperation(c, Asset[c], keys, state)} :
           c \in ImpureCircuit, state \in InputState}

MaintainResults == {Failure("runtime")}

Results(o) ==
  UNION {LET keys == MakeKeys(CommandConfigProvider(Json, Env, cli)) IN
         IF ~keys.right THEN {Failure("configuration")}
         ELSE CASE o = "deploy" -> DeployResults(keys)
                [] o = "circuit" -> CircuitResults(keys)
                [] o = "maintainContract" -> MaintainContractResults(keys)
                [] o = "maintainCircuit" -> MaintainCircuitResults(keys)
                [] OTHER -> MaintainResults :
         cli \in {options \in CommandLine : Accepts(options)}}

(* An input file that cannot be read or parsed fails the command as well. *)
Execute(c) ==
  \/ /\ Advance(c, "execute", "failed")
     /\ UNCHANGED private
  \/ \E result \in {r \in Results(op[c]) : r.ok} :
       /\ Advance(c, "execute", "output")
       /\ private' = IF op[c] = "circuit" THEN [private EXCEPT ![c] = result.privateState]
                     ELSE private

ExecuteStep(c) ==
  /\ Execute(c)
  /\ UNCHANGED <<moduleVars, op, began, text, loaded, written, output, solo>>

Touches(c, f, whole) ==
  /\ output' = [output EXCEPT ![f] = [by |-> c, whole |-> whole, state |-> private[c]]]
  /\ solo' = [d \in Command |-> solo[d] /\ (d = c \/ written[d] = 0)]

OpenOutput(c) ==
  /\ written[c] < Len(Outputs(op[c]))
  /\ Advance(c, "output", "fill")
  /\ written' = [written EXCEPT ![c] = @ + 1]
  /\ Touches(c, Outputs(op[c])[written[c] + 1], FALSE)
  /\ UNCHANGED <<moduleVars, op, began, text, loaded, private>>

(* Mutant: an error while a file is written is not looked at. *)
WriteOutputAnyhow(c) ==
  /\ pc[c] = "fill"
  /\ \E whole \in BOOLEAN :
       /\ pc' = [pc EXCEPT ![c] = IF written[c] = Len(Outputs(op[c])) THEN "done" ELSE "output"]
       /\ Touches(c, Outputs(op[c])[written[c]], whole)
  /\ UNCHANGED <<moduleVars, op, began, text, loaded, private, written>>

(* One file after the other; an error ends the command. *)
WriteOutput(c) ==
  /\ pc[c] = "fill"
  /\ \E whole \in BOOLEAN :
       /\ pc' = [pc EXCEPT ![c] = IF ~whole THEN "failed"
                                  ELSE IF written[c] = Len(Outputs(op[c])) THEN "done" ELSE "output"]
       /\ Touches(c, Outputs(op[c])[written[c]], whole)
  /\ UNCHANGED <<moduleVars, op, began, text, loaded, private, written>>

(* An error in the source or of the file system, or the user ends the process. *)
Interrupt(c) ==
  /\ pc[c] \notin {"none", "done", "failed"}
  /\ pc' = [pc EXCEPT ![c] = "failed"]
  /\ UNCHANGED <<moduleVars, op, began, text, loaded, private, written, output, solo>>

CommandNext ==
  \/ Edit
  \/ \E c \in Command :
       \/ Stat(c) \/ ReadSource(c) \/ OpenModule(c) \/ WriteModule(c) \/ Import(c)
       \/ ExecuteStep(c) \/ OpenOutput(c) \/ WriteOutput(c) \/ Interrupt(c)

CommandSpec == CommandInit /\ [][CommandNext]_commandVars

-----------------------------------------------------------------------------

(* A command runs the configuration as it was when it began, or a later one,
   unless some command wrote the module of a version that was edited while it
   compiled it: that module is the newer file, and is taken for up to date
   until the next edit. *)
ModuleNotOlder ==
  \A c \in Command : loaded[c] # 0 => loaded[c] >= began[c] \/ c \in misled

(* While no other command writes, the files a command has opened are its own
   and, up to the last one, whole: what is there of the private state is of
   the intent beside it.  Of a command that succeeds all of them are. *)
OutputsAgree ==
  \A c \in Command : solo[c] =>
    LET files == Outputs(op[c]) IN
    \A i \in 1..written[c] :
      /\ output[files[i]].by = c
      /\ i < written[c] \/ pc[c] = "done" => output[files[i]].whole
      /\ pc[c] = "done" => written[c] = Len(files)

=============================================================================
