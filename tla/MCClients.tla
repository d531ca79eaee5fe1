----------------------------- MODULE MCClients ------------------------------
(* A client is configured from a connection string, authenticates its      *)
(* connections or sends commands: which of the three machines a behaviour  *)
(* is about is chosen by Init, and the other two stay in an initial state. *)
EXTENDS MCConnectionString, MCAuthentication, MCCommands

VARIABLE which

clientsVars == <<which, uvars, avars, commandVars>>

UriIdle == uri = AUri /\ UInit
ConnectionsIdle == setup = Setup(NoPassword(Oidc), NoScram, "none") /\ AInit
CommandsIdle == config = EveryCall /\ Init

ClientsInit ==
    \/ which = "uri" /\ UInit /\ ConnectionsIdle /\ CommandsIdle
    \/ which = "auth" /\ AInit /\ UriIdle /\ CommandsIdle
    \/ which = "commands" /\ Init /\ UriIdle /\ ConnectionsIdle

ClientsNext ==
    \/ which = "uri" /\ UNext /\ UNCHANGED <<which, avars, commandVars>>
    \/ which = "auth" /\ ANext /\ UNCHANGED <<which, uvars, commandVars>>
    \/ which = "commands" /\ Next /\ UNCHANGED <<which, uvars, avars>>

\* The fairness of ASpec, for its machine.
AChosen(A) == which = "auth" /\ A

ClientsSpec ==
    /\ ClientsInit /\ [][ClientsNext]_clientsVars
    /\ \A c \in Sockets : SF_avars(AChosen(Step(c)))
=============================================================================
