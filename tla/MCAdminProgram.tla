---------------------------- MODULE MCAdminProgram ----------------------------
(***************************************************************************)
(* Three runs with any command lines of six: create nodes, on all ranks or *)
(* refused by the last one, open nodes, remove the node the first run has  *)
(* made on the first or on the last rank, and shut the servers down.       *)
(***************************************************************************)
EXTENDS AdminProgram

CommandLine(op, target, refused) ==
  [op |-> op, target |-> target, refused |-> refused]

SixCommands ==
  LET first == <<1, 0>>
      last  == Size - 1
  IN  {CommandLine(op, first, {}) : op \in {"create", "open", "destroy", "shutdown"}}
        \cup {CommandLine("create", first, {last}), CommandLine("close", <<1, last>>, {})}
=============================================================================
