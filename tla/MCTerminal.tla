------------------------------ MODULE MCTerminal ------------------------------
(***************************************************************************)
(* What is behind a terminal: sessions that execute commands on a device,  *)
(* and a line that is typed to the parser.  No step of one reads or writes *)
(* the state of the other, so that in each initial state one of them has   *)
(* nothing to do.                                                          *)
(***************************************************************************)
EXTENDS MCManagement, MCCommandLine

Unattended   == [Exec EXCEPT !.commands = {}, !.parents = {TRUE}, !.crashes = FALSE]
NothingTyped == Topic({"Shutdown"}, {}, 0)

TerminalProfiles == Append(MCProfiles, Unattended)
TerminalTopics   == Append(MCTopics, NothingTyped)

TerminalInit ==
  /\ topic \in DOMAIN Topics /\ profile \in DOMAIN Profiles
  /\ (profile = Len(Profiles)) # (topic = Len(Topics))
  /\ Init /\ LineInit

TerminalNext ==
  \/ Next /\ UNCHANGED lineVars
  \/ LineNext /\ UNCHANGED vars

TerminalSpec == TerminalInit /\ [][TerminalNext]_<<vars, lineVars>>
=============================================================================
