------------------------- MODULE MCLocalRouter -------------------------
(***************************************************************************)
(* Small instances of LocalRouter for TLC.                                 *)
(***************************************************************************)
EXTENDS LocalRouterProperties, TLC

CONSTANTS a, b

\* the lists of the test agents and of Directory
TestAgentList == <<"HANDLE_PING", "HANDLE_SHUTDOWN", "IGNORE_UNHANDLED_REPLIES",
                   "HANDLE_DOES_NOT_UNDERSTAND">>
DirectoryList == <<"HANDLE_PING", "HANDLE_DOES_NOT_UNDERSTAND">>

MCAppSubjects == {"ADD_ONE"}
\* a client without a handler and an agent that can be shut down
ClientAndAgent == (a :> Missing) @@ (b :> TestAgentList)
\* a client without a handler and a directory
ClientAndDirectory == (a :> Missing) @@ (b :> DirectoryList)

=============================================================================
