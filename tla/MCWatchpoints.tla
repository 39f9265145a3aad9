---------------------------- MODULE MCWatchpoints -----------------------------
(***************************************************************************)
(* Watchpoints for TLC.                                                    *)
(***************************************************************************)
EXTENDS Watchpoints, TLC

\* The watchpoints the CPU has.
FirstTwo == {0, 1}

\* Bound: GDB writes over entries of the table only while no watchpoint has
\* been marked or is enabled, and the client is not at work.  The handlers of
\* M and X and those for hardware share no register and no entry of the table.
OverwritesAlone ==
    overwritten # {} => marked = {} /\ dmr1 = {} /\ dmr2 = {} /\ ~told

\* Instructions are only compared.
Alike == Permutations(Instrs)

=============================================================================
