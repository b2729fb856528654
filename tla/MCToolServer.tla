------------------------------ MODULE MCToolServer ------------------------------
(***************************************************************************)
(* ToolServer on a small instance: environments that differ in one thing   *)
(* or two, and one tool of each sort.                                      *)
(***************************************************************************)
EXTENDS ToolServer

Plain == [vars |-> {}, file |-> "none", enableWrites |-> FALSE, writesVar |-> "unset", transport |-> "http",
          bind |-> "free", destination |-> "none", bearer |-> "none", origins |-> {}, agentsMd |-> FALSE]
Pod == Erp!EnvNeeded
MCEnvironments ==
  {Plain,
   [Plain EXCEPT !.enableWrites = TRUE, !.vars = Pod, !.destination = "live"],
   [Plain EXCEPT !.enableWrites = TRUE, !.transport = "stdio", !.agentsMd = TRUE],
   [Plain EXCEPT !.writesVar = "true", !.transport = "stdio", !.destination = "auth = mock"],
   [Plain EXCEPT !.writesVar = "1", !.file = "complete", !.bearer = "right", !.origins = {"app"}],
   \* Only the address of the pod, with and without a credentials file.
   [Plain EXCEPT !.vars = {"BASE_URL"}],
   [Plain EXCEPT !.vars = {"BASE_URL"}, !.file = "unreadable"],
   [Plain EXCEPT !.vars = {"BASE_URL"}, !.file = "complete"],
   \* Servers that do not start.
   [Plain EXCEPT !.vars = Pod, !.file = "malformed"],
   [Plain EXCEPT !.destination = "unloadable"],
   [Plain EXCEPT !.transport = "websocket"],
   [Plain EXCEPT !.bind = "taken"]}

MCTools == {"oracle.rest.call", "oracle.oic.activate", CustomerMaster, PublishSandbox, "no such tool"}

\* An object with two secrets, one of them deep in an object itself.
MCArguments ==
  {(<<"function">> :> "x") @@ (<<"parameters", "0", "password", "inner">> :> "secret")
     @@ (<<"parameters", "0", "password", "token">> :> "secret") @@ (<<"parameters", "1">> :> "y")}
===================================================================================
