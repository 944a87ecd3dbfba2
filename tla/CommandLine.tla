---------------------------- MODULE CommandLine ----------------------------
(***************************************************************************)
(* The command line as one program: its ingest and normalize commands, one *)
(* payload on its way to the ledger, and the configuration that names the  *)
(* endpoints payloads come from.  They share no variable; a step of the    *)
(* program is a step of one of them.                                       *)
(***************************************************************************)
EXTENDS DualWrite, SilverLedger, Providers

cliVars == <<dwVars, slVars, pvVars>>

CliInit == DwInit /\ SlInit /\ PvInit

CliNext ==
    \/ DwNext /\ UNCHANGED <<slVars, pvVars>>
    \/ SlNext /\ UNCHANGED <<dwVars, pvVars>>
    \/ PvNext /\ UNCHANGED <<dwVars, slVars>>

CliSpec == CliInit /\ [][CliNext]_cliVars

-----------------------------------------------------------------------------
\* Types of the three parts; foreign keys of Silver rows and of matches.
\* cli/src/main.rs, adapters/src/dual_write.rs, core/src/config.rs.
TypesOK == DwTypeOK /\ SlTypeOK /\ PvTypeOK
=============================================================================
