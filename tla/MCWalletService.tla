-------------------------- MODULE MCWalletService --------------------------
(* Three wallets, one of which may be unloaded; writes that add one, add    *)
(* two, and add none; a file of this node, of another one, and a bad one.         *)
EXTENDS WalletService

MCWallets == 1..3
MCCatalogs == {1..3, {1, 3}}
MCSelections == {{}, {1}, {2, 3}}
MCOutcomes == {"ready", "ineligible"}
MCFiles == {[kind |-> "own", revision |-> 1, sel |-> {2}],
            [kind |-> "other", revision |-> 2, sel |-> {1}],
            [kind |-> "invalid", revision |-> 0, sel |-> {}]}
=============================================================================
