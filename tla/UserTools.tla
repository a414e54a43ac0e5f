------------------------------ MODULE UserTools ------------------------------
(***************************************************************************)
(* Three tools of the main window that share no state: the search box, the *)
(* password generator of the secret editor, and the CSV import of the      *)
(* profile page.  A behaviour uses one of them.                            *)
(***************************************************************************)
EXTENDS SearchFilter, PasswordService, ImportService

VARIABLE tool

toolVars == <<searchVars, passwordVars, importVars, tool>>

ToolsInit ==
    /\ tool \in {"search", "generate", "import"}
    /\ SearchInit /\ PasswordInit /\ ImportInit

ToolsNext ==
    \/ tool = "search"   /\ SearchNext   /\ UNCHANGED <<passwordVars, importVars, tool>>
    \/ tool = "generate" /\ PasswordNext /\ UNCHANGED <<searchVars, importVars, tool>>
    \/ tool = "import"   /\ ImportNext   /\ UNCHANGED <<searchVars, passwordVars, tool>>

ToolsSpec == ToolsInit /\ [][ToolsNext]_toolVars
=============================================================================
